---- MODULE Spec2Model ----
(***************************************************************************)
(* Model of the Zonneplan battery device of the Onbalansmarkt Homey app    *)
(* (src/drivers/zonneplan-battery/device.ts) and of the parts of the       *)
(* Onbalansmarkt client it calls (src/lib/onbalansmarkt-client.ts).        *)
(*                                                                         *)
(* Two families of specifications share the variables below:               *)
(*   SpecCalc  the next-send-time computation as a function of the clock   *)
(*             and the two schedule settings;                              *)
(*   Spec      the device as a state machine of handlers, timers and       *)
(*             remote calls in flight (time abstracted: a live timer may   *)
(*             fire at any moment).                                        *)
(*                                                                         *)
(* Time is an integer number of seconds counted from the top of some hour   *)
(* and resolved to whole seconds. The process runs in a time zone with     *)
(* daylight saving: its clocks go forward by an hour at SpringForward and  *)
(* back by an hour at FallBack, and the Date methods that work on local    *)
(* wall-clock fields follow them.                                          *)
(***************************************************************************)
EXTENDS Integers, Sequences, FiniteSets, TLC

VARIABLES
    calcNow,        \* SpecCalc: the value of `new Date()` read by the computation
    calcStart,      \* SpecCalc: setting measurements_send_start_minute
    calcInterval,   \* SpecCalc: setting measurements_send_interval (0 = unset)
    calcNext,       \* SpecCalc: the computed next-send time (NoTime before the first call)
    calcPrev,       \* SpecCalc: the next-send time computed by the call before (NoTime if none)
    calcCount,      \* SpecCalc: number of recomputations made so far
    phase,                       \* where onInit is: "created", "adding", "defaulting" or "ready"
    settings,                    \* the device settings as getSetting() returns them
    onbalansmarktClient,         \* NoClient, or the API key the client was built with
    profilePollerHandle,         \* NoTimer, or the timer the field refers to
    measurementsSchedulerHandle, \* NoTimer, or the timer the field refers to
    countdownTimerHandle,        \* NoTimer, or the timer the field refers to
    lastReceivedMetrics,         \* NoMetrics, or the current Measurement
    timers,                      \* the timers of the host that are live (not cleared, not spent)
    schedulerRuns,               \* calls of startMeasurementsScheduler that created timers
    pollerRuns,                  \* calls of startProfilePoller that created a timer
    tasks,                       \* handlers suspended at an await, oldest first
    storeValue,                  \* getStoreValue('lastReceivedMetrics'): NoMetrics or a record
    capabilities,                \* the capabilities the device has and the values restoring reads
    rankings,                    \* the ranking capability values the poll publishes
    remoteProfiles,              \* environment: the profiles the remote service answers with
    displayFaults,               \* environment: the capability updates the host may reject
    eventSamples,                \* environment: the metrics the 'receive' flow card is run with
    restartClocks,               \* environment: the clock values at which the process is started again
    ingestionsAtOnce,            \* environment: the metric events whose handlers run at the same time
    everReceived,                \* history: a metric event has been received by the device
    lastEventMetrics,            \* history: the Measurement of the last metric event, kept across restarts
    storeWriteFailed,            \* history: a write of a Measurement to the Store has failed
    settingsChanges,             \* history: number of settings changes processed
    metricEvents,                \* history: number of metric events received
    emitCount,                   \* history: number of 'metrics updated' triggers emitted
    slotRestored,                \* history: the current Measurement was installed from the Store at the start
    lastCall,                    \* what the step just taken did to the outside: NoCall or a record
    clockMs,        \* the value of `new Date()` and `Date.now()`, in milliseconds
    nextLivesend,   \* the capability onbalansmarkt_next_livesend
    savedMetrics,   \* history: the Measurement last written to the Store
    clientCall,     \* SpecClient: the measurement sendMeasurement is called with, and the reply
    clientResult,   \* SpecClient: what sendMeasurement did (the request made, the error thrown)
    firstRunHandle, \* SpecSchedule: the live send timer with the time it fires next, or NoTimer
    countdownDue,   \* SpecSchedule: the time the countdown interval fires next (NoTime if none)
    firstRunEnds,   \* SpecSchedule: the time the first-run callback's await ends (NoTime if none)
    firstBoundary,  \* SpecSchedule: history, the first send time computed at the start
    sendFires       \* SpecSchedule: history, number of fires of the send timers

\* The environment of a run: it is chosen at the start and never changes.
envVars == <<remoteProfiles, displayFaults, eventSamples, restartClocks, ingestionsAtOnce>>

calcVars == <<calcNow, calcStart, calcInterval, calcNext, calcPrev, calcCount>>

\* The variables of the specifications of single functions.
unitVars == <<clockMs, nextLivesend, savedMetrics, clientCall, clientResult,
              firstRunHandle, countdownDue, firstRunEnds, firstBoundary, sendFires>>

\* The variables of the single functions but the countdown capability.
unitRestVars == <<clockMs, savedMetrics, clientCall, clientResult,
                  firstRunHandle, countdownDue, firstRunEnds, firstBoundary, sendFires>>

\* The variables of the timed scheduler.
schedVars == <<firstRunHandle, countdownDue, firstRunEnds, firstBoundary, sendFires>>

devVars == <<phase, settings, onbalansmarktClient, profilePollerHandle,
             measurementsSchedulerHandle, countdownTimerHandle, lastReceivedMetrics,
             timers, schedulerRuns, pollerRuns, tasks, storeValue, capabilities,
             rankings, remoteProfiles, displayFaults, eventSamples, restartClocks,
             ingestionsAtOnce,
             everReceived, lastEventMetrics, storeWriteFailed, settingsChanges,
             metricEvents, emitCount, slotRestored, lastCall, clockMs, nextLivesend, savedMetrics,
             clientCall, clientResult, firstRunHandle, countdownDue, firstRunEnds,
             firstBoundary, sendFires>>

vars == <<calcNow, calcStart, calcInterval, calcNext, calcPrev, calcCount,
          phase, settings, onbalansmarktClient, profilePollerHandle,
          measurementsSchedulerHandle, countdownTimerHandle, lastReceivedMetrics,
          timers, schedulerRuns, pollerRuns, tasks, storeValue, capabilities,
          rankings, remoteProfiles, displayFaults, eventSamples, restartClocks,
             ingestionsAtOnce,
          everReceived, lastEventMetrics, storeWriteFailed, settingsChanges,
          metricEvents, emitCount, slotRestored, lastCall, clockMs, nextLivesend, savedMetrics,
          clientCall, clientResult, firstRunHandle, countdownDue, firstRunEnds,
          firstBoundary, sendFires>>

----------------------------------------------------------------------------
(* Bounds of the model *)

\* SpecCalc: how many times the next-send time is recomputed in one behaviour.
MaxRecompute == 2

\* Seconds past the minute at which the clock is sampled.
SecondsSample == {0, 30}

\* Values of the send-interval setting that are explored (0 stands for unset).
Intervals == {0, 1, 7, 15, 25, 60, 90}

\* A time that is no time.
NoTime == 0 - 1

----------------------------------------------------------------------------
(* Date arithmetic used by the computation *)

\* The offsets of local time from UTC, in seconds, in winter and in summer.
StandardOffset == 3600
SummerOffset == 7200

\* The instants at which the zone's clocks go forward and back.
SpringForward == 100 * 3600
FallBack == 300 * 3600

\* The offset of local time from UTC at the instant t.
UtcOffset(t) == IF t >= SpringForward /\ t < FallBack THEN SummerOffset ELSE StandardOffset

\* LocalTime(t) of ECMAScript: the wall-clock time at the instant t.
LocalTime(t) == t + UtcOffset(t)

\* UTC(wall) of ECMAScript: the instant of the wall-clock time `wall`. A
\* wall-clock time that is repeated when the clocks go back is the earlier
\* instant, one that is skipped when they go forward is read with the offset
\* from before the shift.
UTC(wall) ==
    IF UtcOffset(wall - SummerOffset) = SummerOffset
    THEN wall - SummerOffset
    ELSE wall - StandardOffset

\* Date.getMinutes(): the minute of the wall-clock hour of time t.
getMinutes(t) == (LocalTime(t) \div 60) % 60

\* Date.getSeconds(): the second of the minute of time t.
getSeconds(t) == LocalTime(t) % 60

\* The top of the hour that contains t.
HourStart(t) == t - (t % 3600)

\* Date.setMinutes(m, 0, 0) on a copy of t: minute m of t's wall-clock hour,
\* zero seconds; m >= 60 overflows into the following hours.
setMinutes(t, m) == UTC(HourStart(LocalTime(t)) + m * 60)

\* Mutant of EffInterval: an unset interval falls back to one minute.
EffIntervalOneMinute(setting) == IF setting = 0 THEN 1 ELSE setting

\* `getSetting('measurements_send_interval') || 15`.
EffInterval(setting) == IF setting = 0 THEN 15 ELSE setting

\* `getSetting('measurements_send_start_minute') || 0`.
EffStart(setting) == setting

\* while (nextMinute <= currentMinute) nextMinute += intervalMinutes
RECURSIVE BoundaryLoop(_, _, _)
BoundaryLoop(nextMinute, currentMinute, intervalMinutes) ==
    IF nextMinute <= currentMinute
    THEN BoundaryLoop(nextMinute + intervalMinutes, currentMinute, intervalMinutes)
    ELSE nextMinute

\* The number of times the body of that while loop runs.
RECURSIVE BoundaryLoopIterations(_, _, _)
BoundaryLoopIterations(nextMinute, currentMinute, intervalMinutes) ==
    IF nextMinute <= currentMinute
    THEN 1 + BoundaryLoopIterations(nextMinute + intervalMinutes, currentMinute,
                                    intervalMinutes)
    ELSE 0

\* The number of iterations of the boundary search in one call of
\* calculateNextMeasurementTime: none when the start minute lies ahead.
SearchIterations(now, startSetting, intervalSetting) ==
    LET currentMinute == getMinutes(now)
        startMinute == EffStart(startSetting)
    IN  IF currentMinute < startMinute
        THEN 0
        ELSE BoundaryLoopIterations(startMinute, currentMinute,
                                    EffInterval(intervalSetting))

\* The boundary minute, counted from the top of now's hour.
NextMinute(now, startMinute, intervalMinutes) ==
    LET currentMinute == getMinutes(now)
    IN  IF currentMinute < startMinute
        THEN startMinute
        ELSE BoundaryLoop(startMinute, currentMinute, intervalMinutes)

\* nextSendTime as calculateNextMeasurementTime computes it.
NextSendTime(now, startSetting, intervalSetting) ==
    LET startMinute == EffStart(startSetting)
        intervalMinutes == EffInterval(intervalSetting)
        candidate == setMinutes(now, NextMinute(now, startMinute, intervalMinutes))
    IN  IF candidate <= now
        THEN setMinutes(candidate, getMinutes(candidate) + intervalMinutes)
        ELSE candidate

\* calculateNextMeasurementTime(): the delay until the next send.
calculateNextMeasurementTime(now, startSetting, intervalSetting) ==
    NextSendTime(now, startSetting, intervalSetting) - now

\* calculateNextMeasurementTime() when `new Date()` reads nowMs milliseconds:
\* nextSendTime has zero seconds and milliseconds, so it is the time computed
\* from the clock's whole second.
calculateNextMeasurementTimeMs(nowMs, startSetting, intervalSetting) ==
    NextSendTime(nowMs \div 1000, startSetting, intervalSetting) * 1000 - nowMs

\* nextSendTime as updateCountdownDisplay computes it, in milliseconds.
CountdownSendTime(now, startSetting, intervalSetting) ==
    LET startMinute == EffStart(startSetting)
        intervalMinutes == EffInterval(intervalSetting)
        currentMinute == getMinutes(now \div 1000)
        nextMinute == IF currentMinute < startMinute
                      THEN startMinute
                      ELSE BoundaryLoop(startMinute, currentMinute, intervalMinutes)
        nextSendTime == setMinutes(now \div 1000, nextMinute)
    IN  IF nextSendTime * 1000 <= now
        THEN setMinutes(nextSendTime, getMinutes(nextSendTime) + intervalMinutes) * 1000
        ELSE nextSendTime * 1000

\* Mutant of CeilDiv: Math.round instead of Math.ceil.
RoundDiv(a, b) == (2 * a + b) \div (2 * b)

\* Math.ceil(a / b) for b > 0.
CeilDiv(a, b) == 0 - ((0 - a) \div b)

\* Math.max(0, n)
MaxZero(n) == IF n < 0 THEN 0 ELSE n

\* Mutant of CountdownValue: the displayed value is counted down from the
\* value before.
CountdownDecremented(previous, now, startSetting, intervalSetting) ==
    IF previous > 0
    THEN previous - 1
    ELSE MaxZero(CeilDiv(CountdownSendTime(now, startSetting, intervalSetting) - now, 60000))

\* The value updateCountdownDisplay hands to setCapabilityValue, `previous`
\* being the value the capability has.
CountdownValue(previous, now, startSetting, intervalSetting) ==
    MaxZero(CeilDiv(CountdownSendTime(now, startSetting, intervalSetting) - now, 60000))

----------------------------------------------------------------------------
(* The device: values *)

\* At most this many handlers are suspended at an await at the same time.
MaxTasks == 2

\* At most this many settings changes are processed in one behaviour.
MaxSettingsChanges == 1

\* At most this many metric events are received in one behaviour.
MaxMetricEvents == 2

\* Values of the settings that are explored.
ApiKeys == {"", "k"}
PollIntervals == {300, 600}
SendIntervals == {15, 30}
StartMinutes == {0}
Offsets == {0, 5}
TradingModes == {"manual", "imbalance"}

SettingKeys == {"apiKey", "pollInterval", "enabled", "interval", "startMinute",
                "reportZero", "autoSend", "offset", "mode", "trigger"}

\* apiKey: onbalansmarkt_api_key, pollInterval: onbalansmarkt_poll_interval,
\* enabled: measurements_send_enabled, interval: measurements_send_interval,
\* startMinute: measurements_send_start_minute, reportZero:
\* report_zero_trading_results, autoSend: auto_send_measurements,
\* offset: total_earned_offset, mode: trading_mode, trigger: trigger_live_send.
SettingsDomain ==
    [apiKey : ApiKeys, pollInterval : PollIntervals, enabled : BOOLEAN,
     interval : SendIntervals, startMinute : StartMinutes, reportZero : BOOLEAN,
     autoSend : BOOLEAN, offset : Offsets, mode : TradingModes, trigger : BOOLEAN]

\* The keys in which two settings records differ (changedKeys).
ChangedKeys(old, new) == {k \in SettingKeys : old[k] # new[k]}

\* The settings changes that are explored: every change of one key, and the
\* API key changed together with the poll interval or with the enable flag.
ChangeSets ==
    {{k} : k \in SettingKeys} \cup {{"apiKey", "pollInterval"}, {"apiKey", "enabled"}}

\* The explored values of each setting.
SettingValues ==
    [apiKey |-> ApiKeys, pollInterval |-> PollIntervals, enabled |-> BOOLEAN,
     interval |-> SendIntervals, startMinute |-> StartMinutes, reportZero |-> BOOLEAN,
     autoSend |-> BOOLEAN, offset |-> Offsets, mode |-> TradingModes, trigger |-> BOOLEAN]

\* The settings that differ from s in exactly the keys `keys`.
RECURSIVE ChangedSettings(_, _)
ChangedSettings(s, keys) ==
    IF keys = {}
    THEN {s}
    ELSE LET k == CHOOSE x \in keys : TRUE
         IN  UNION {ChangedSettings([s EXCEPT ![k] = v], keys \ {k}) :
                       v \in SettingValues[k] \ {s[k]}}

\* The new settings of the settings changes that are explored.
NewSettings(s) == UNION {ChangedSettings(s, keys) : keys \in ChangeSets}

\* The settings a device process is started with: the schedule and the poll
\* interval as pairing sets them, no offset, the trading mode manual, the
\* simulation checkbox off, the rest free.
InitialSettings ==
    {s \in SettingsDomain :
        /\ s.pollInterval = 300 /\ s.interval = 15 /\ s.startMinute = 0 /\ s.offset = 0
        /\ s.mode = "manual" /\ ~s.trigger}

\* A ZonneplanMetrics record as the 'receive' flow card builds it; the
\* timestamp is a Date: a number of milliseconds since the epoch.
ZonneplanMetrics(dailyEarned, totalEarned, dailyCharged, dailyDischarged, batteryPercentage, cycleCount, loadBalancingActive, timestamp) ==
    [dailyEarned |-> dailyEarned, totalEarned |-> totalEarned, dailyCharged |-> dailyCharged,
     dailyDischarged |-> dailyDischarged, batteryPercentage |-> batteryPercentage,
     cycleCount |-> cycleCount, loadBalancingActive |-> loadBalancingActive,
     timestamp |-> timestamp]

\* The metric events that are explored where the claims are about the
\* earnings: a zero result and a non-zero one, with different lifetime
\* totals; the other fields are the same in both.
MetricEventSamples ==
    {ZonneplanMetrics(0, 100, 4, 3, 80, 12, TRUE, [ms |-> 0]),
     ZonneplanMetrics(10, 200, 4, 3, 80, 12, TRUE, [ms |-> 0])}

\* A value the remote left out (null or undefined).
Null == 0 - 1

\* The ranking capabilities with the defaults initializeCapabilities sets.
DefaultRankings ==
    [overallRank |-> 0, providerRank |-> 0, reportedCharged |-> 0, reportedDischarged |-> 0]

\* resultToday of a profile that has no result for today.
NoResultToday == [none |-> TRUE]

\* The profiles getProfile returns that are explored: one with today's result
\* complete, one without a result for today, and one whose result of today
\* lacks the battery totals.
ProfileSamples ==
    {[resultToday |-> [overallRank |-> 3, providerRank |-> 2,
                       batteryCharged |-> 7, batteryDischarged |-> 6]],
     [resultToday |-> NoResultToday],
     [resultToday |-> [overallRank |-> Null, providerRank |-> Null,
                       batteryCharged |-> Null, batteryDischarged |-> Null]]}

\* lastReceivedMetrics = null, and an empty Store slot.
NoMetrics == [none |-> TRUE]

\* onbalansmarktClient = null.
NoClient == "null"

\* A handle that is null.
NoTimer == [kind |-> "none"]

\* A step that made no remote call and threw nothing.
NoCall == [op |-> "none"]

\* Date values: a number of milliseconds since the epoch, or an Invalid Date
\* (`new Date(text)` of a text that is no date).
InvalidDate == [invalid |-> TRUE]

\* Date.toISOString(): the text YYYY-MM-DDTHH:mm:ss.sssZ, as its day (counted
\* from the epoch), hour, minute, second and millisecond.
toISOString(date) ==
    [day |-> date.ms \div 86400000, hour |-> (date.ms \div 3600000) % 24,
     minute |-> (date.ms \div 60000) % 60, second |-> (date.ms \div 1000) % 60,
     millisecond |-> date.ms % 1000]

\* A stored object's timestamp that is missing or the empty text.
NoTimestamp == [none |-> TRUE]

\* `new Date(text)` of a text toISOString has made.
DateOfISOString(text) ==
    [ms |-> (((text.day * 24 + text.hour) * 60 + text.minute) * 60 + text.second) * 1000
            + text.millisecond]

\* Whether saveMetricsToStore writes: toISOString throws a RangeError for an
\* Invalid Date (caught and logged), and setStoreValue may fail.
StoreWritten(metrics, outcome) == metrics.timestamp # InvalidDate /\ outcome = "ok"

\* The object saveMetricsToStore hands to setStoreValue.
StoredObject(metrics) ==
    [dailyEarned |-> metrics.dailyEarned, totalEarned |-> metrics.totalEarned,
     dailyCharged |-> metrics.dailyCharged, dailyDischarged |-> metrics.dailyDischarged,
     batteryPercentage |-> metrics.batteryPercentage, cycleCount |-> metrics.cycleCount,
     loadBalancingActive |-> metrics.loadBalancingActive,
     timestamp |-> toISOString(metrics.timestamp)]

\* Mutant of OrZero: a value that is not positive is taken as missing.
OrZeroUnlessPositive(value) == IF value > 0 THEN value ELSE 0

\* `value || 0` of a stored number: 0 for a missing value and for 0.
OrZero(value) == IF value = Null \/ value = 0 THEN 0 ELSE value

\* `value || false` of a stored boolean.
OrFalse(value) == value \/ FALSE

\* The Measurement restoreLastReceivedMetrics builds from the stored object,
\* `now` being the clock it reads for a missing timestamp.
RestoredFromStore(stored, now) ==
    [dailyEarned |-> OrZero(stored.dailyEarned), totalEarned |-> OrZero(stored.totalEarned),
     dailyCharged |-> OrZero(stored.dailyCharged),
     dailyDischarged |-> OrZero(stored.dailyDischarged),
     batteryPercentage |-> OrZero(stored.batteryPercentage),
     cycleCount |-> OrZero(stored.cycleCount),
     loadBalancingActive |-> OrFalse(stored.loadBalancingActive),
     timestamp |-> IF stored.timestamp # NoTimestamp
                   THEN DateOfISOString(stored.timestamp) ELSE [ms |-> now]]

\* `24 * 60 * 60 * 1000`
MaxAgeMs == 24 * 60 * 60 * 1000

\* isMetricsStale when the clock reads `now`; the age of an Invalid Date is
\* NaN, which is not greater than the limit.
isMetricsStale(metrics, now) ==
    metrics.timestamp # InvalidDate /\ now - metrics.timestamp.ms > MaxAgeMs

\* Mutant of InstalledAfterRestore: a stale Measurement is not installed.
InstalledUnlessStale(metrics, now) ==
    IF isMetricsStale(metrics, now) THEN NoMetrics ELSE metrics

\* The Measurement that is current after the restoration of `metrics` at the
\* time `now`: isMetricsStale only chooses the log line.
InstalledAfterRestore(metrics, now) == metrics

\* What the step says of a restoration from the Store.
RestoredCall == [op |-> "restored"]

\* apiKey.trim()
Trim(key) == IF key = " " THEN "" ELSE key

\* `getSetting('onbalansmarkt_poll_interval') || 300`, in seconds.
EffPoll(setting) == IF setting = 0 THEN 300 ELSE setting

\* The fields of the device that starting and stopping the timers work on.
Core ==
    [client |-> onbalansmarktClient, pollH |-> profilePollerHandle,
     schedH |-> measurementsSchedulerHandle, cdH |-> countdownTimerHandle,
     timers |-> timers, tasks |-> tasks, schedRuns |-> schedulerRuns,
     pollRuns |-> pollerRuns]

SetCore(d) ==
    /\ onbalansmarktClient' = d.client
    /\ profilePollerHandle' = d.pollH
    /\ measurementsSchedulerHandle' = d.schedH
    /\ countdownTimerHandle' = d.cdH
    /\ timers' = d.timers
    /\ tasks' = d.tasks
    /\ schedulerRuns' = d.schedRuns
    /\ pollerRuns' = d.pollRuns

\* No settings record.
NoSettings == [none |-> TRUE]

\* A handler suspended at an await. kind: whose handler; pc: what it awaits;
\* metrics: the Measurement (for a profile fetch: the profile) it closed over;
\* timer: the timer whose callback it is; value: a number it computed before
\* the await (0 if none); failed: the capability updates of the handler the
\* host has rejected; new: the newSettings argument of onSettings; requests:
\* the requests the remote call it awaits has made (0 without one).
Task(kind, pc, metrics, timer, value) ==
    [kind |-> kind, pc |-> pc, metrics |-> metrics, timer |-> timer, value |-> value,
     failed |-> {}, new |-> NoSettings, requests |-> 0]

\* A handler that has called sendMeasurement or getProfile and awaits it: the
\* client has made its fetch.
CallTask(kind, pc, metrics, timer) ==
    [Task(kind, pc, metrics, timer, 0) EXCEPT !.requests = 1]

\* The sequence q without its i-th element.
RemoveAt(q, i) == SubSeq(q, 1, i - 1) \o SubSeq(q, i + 1, Len(q))

----------------------------------------------------------------------------
(* The device: starting and stopping the timers *)

\* initializeOnbalansmarktClient, reading the settings s.
initializeOnbalansmarktClient(d, s) ==
    [d EXCEPT !.client = IF Trim(s.apiKey) # "" THEN Trim(s.apiKey) ELSE NoClient]

\* stopProfilePoller
stopProfilePoller(d) ==
    IF d.pollH # NoTimer
    THEN [d EXCEPT !.timers = @ \ {d.pollH}, !.pollH = NoTimer]
    ELSE d

\* startProfilePoller, reading the settings s: the poller is stopped, and with
\* a client a fetch is started at once (not awaited) and the interval created.
startProfilePoller(d, s) ==
    LET d1 == stopProfilePoller(d)
        t  == [kind |-> "poll", run |-> d1.pollRuns + 1,
               period |-> EffPoll(s.pollInterval), start |-> 0]
    IN  IF d1.client = NoClient
        THEN d1
        ELSE [d1 EXCEPT !.tasks = Append(@, CallTask("poll", "fetching", NoMetrics, t)),
                        !.timers = @ \cup {t},
                        !.pollH = t,
                        !.pollRuns = @ + 1]

\* stopCountdownTimer
stopCountdownTimer(d) ==
    IF d.cdH # NoTimer
    THEN [d EXCEPT !.timers = @ \ {d.cdH}, !.cdH = NoTimer]
    ELSE d

\* startCountdownTimer, called by run number `run` of the scheduler.
startCountdownTimer(d, run) ==
    LET d1 == stopCountdownTimer(d)
        t  == [kind |-> "countdown", run |-> run, period |-> 10, start |-> 0]
    IN  [d1 EXCEPT !.timers = @ \cup {t}, !.cdH = t]

\* stopMeasurementsScheduler: clearInterval and clearTimeout of the handle
\* (clearing a spent timeout changes nothing), then stopCountdownTimer.
stopMeasurementsScheduler(d) ==
    stopCountdownTimer(
        IF d.schedH # NoTimer
        THEN [d EXCEPT !.timers = @ \ {d.schedH}, !.schedH = NoTimer]
        ELSE d)

\* startMeasurementsScheduler, reading the settings s: the scheduler is
\* stopped; when enabled and with a client the countdown timer and the
\* first-run timeout are created and the handle refers to the timeout.
startMeasurementsScheduler(d, s) ==
    LET d1  == stopMeasurementsScheduler(d)
        run == d1.schedRuns + 1
        t   == [kind |-> "timeout", run |-> run,
                period |-> EffInterval(s.interval), start |-> EffStart(s.startMinute)]
        d2  == startCountdownTimer(d1, run)
    IN  IF ~s.enabled \/ d1.client = NoClient
        THEN d1
        ELSE [d2 EXCEPT !.timers = @ \cup {t}, !.schedH = t, !.schedRuns = run]

----------------------------------------------------------------------------
(* The device: delivery *)

\* Outcomes of a remote call: the client resolves, or throws (the remote
\* rejects, or cannot be reached).
Outcomes == {"ok", "fail"}

\* `getSetting('total_earned_offset') || 0`
EffOffset(s) == s.offset

\* `getSetting('trading_mode') || 'manual'`
EffMode(s) == IF s.mode = "" THEN "manual" ELSE s.mode

\* batteryResultTotal as sendToOnbalansmarkt and sendLiveMeasurement compute it.
BatteryResultTotal(metrics, s) == metrics.totalEarned + EffOffset(s)

\* Mutant of TimerCallbackHeldBack: a timer callback waits until the handlers
\* of the other loop have ended.
TimerCallbackWaitsForOtherLoop(t, q) ==
    \E i \in 1..Len(q) :
        IF t.kind = "poll" THEN q[i].kind \in {"firstRun", "tick"} ELSE q[i].kind = "poll"

\* Whether the callback of the due timer t is held back by the handlers q
\* that are suspended: a handler suspended at an `await` has returned to the
\* event loop, so it holds back no timer callback.
TimerCallbackHeldBack(t, q) == FALSE

\* Mutant of SubmitCall: the offset is merged into the Measurement.
SubmitCallMergingOffset(path, metrics, s) ==
    [op |-> "submit", path |-> path,
     measurement |-> [metrics EXCEPT !.totalEarned = @ + EffOffset(s)],
     batteryResult |-> metrics.dailyEarned,
     batteryResultTotal |-> BatteryResultTotal(metrics, s), mode |-> EffMode(s)]

\* The remote submit call made on `path` for `metrics` under the settings s.
SubmitCall(path, metrics, s) ==
    [op |-> "submit", path |-> path, measurement |-> metrics,
     batteryResult |-> metrics.dailyEarned,
     batteryResultTotal |-> BatteryResultTotal(metrics, s), mode |-> EffMode(s)]

\* `metrics.dailyEarned === 0 && !reportZeroResults`
ZeroResultSkipped(metrics, s) == metrics.dailyEarned = 0 /\ ~s.reportZero

\* Whether sendMeasurement, called for `metrics`, reaches its fetch: for an
\* Invalid Date toISOString throws a RangeError while the payload is built,
\* which sendToOnbalansmarkt catches and logs.
RequestIssued(metrics) == metrics.timestamp # InvalidDate

\* sendScheduledMeasurement makes a request: there is a Measurement, it is
\* not a skipped zero result, sendToOnbalansmarkt finds a client and
\* sendMeasurement reaches its fetch.
ScheduledSendIssued ==
    /\ lastReceivedMetrics # NoMetrics
    /\ ~ZeroResultSkipped(lastReceivedMetrics, settings)
    /\ onbalansmarktClient # NoClient
    /\ RequestIssued(lastReceivedMetrics)

\* Mutant of DeliveryFailurePropagates: sendToOnbalansmarkt has no catch.
DeliveryFailureRethrown(outcome) == outcome = "fail"

\* Whether sendToOnbalansmarkt lets a failure of the client reach its caller:
\* its try/catch logs every failure and returns.
DeliveryFailurePropagates(outcome) == FALSE

\* Mutant of IntervalOf: the first-run callback creates no interval.
IntervalNotCreated(t) == [kind |-> "spent", run |-> t.run, period |-> t.period, start |-> 0]

\* The periodic interval a first-run callback of timeout t creates.
IntervalOf(t) == [kind |-> "interval", run |-> t.run, period |-> t.period, start |-> 0]

\* What the step says of a timer fire that made no remote call.
SkipCall(path) == [op |-> "skip", path |-> path]

\* Mutant of RequestsMade: a request that failed is made once more.
RequestsMadeWithRetry(outcome) == IF outcome = "fail" THEN 2 ELSE 1

\* The number of requests one call of sendMeasurement or getProfile makes
\* when its first request ends with `outcome`: each has one fetch in its try
\* block and throws on what fails.
RequestsMade(outcome) == 1

\* Whether the call the handler `task` awaits makes a further request when
\* its request has ended with `outcome`.
RequestRepeated(task, outcome) == RequestsMade(outcome) > task.requests

\* What the step says of a request that is made once more.
RepeatedCall(path) ==
    [op |-> IF path = "poll" THEN "fetch" ELSE "submit", path |-> path, repeated |-> TRUE]

\* The handlers q with the request of handler i made once more.
RequestMadeAgain(q, i) == [q EXCEPT ![i].requests = @ + 1]

\* What the step says of a remote call that ended.
ResponseCall(path, outcome) ==
    [op |-> "response", path |-> path, outcome |-> outcome,
     requests |-> RequestsMade(outcome)]

\* The step's record `call` of a handler whose remote call ended with
\* `outcome`, with the number of requests the call made.
AfterRequest(call, outcome) ==
    [f \in DOMAIN call \cup {"requests"} |->
        IF f = "requests" THEN RequestsMade(outcome) ELSE call[f]]

\* What the step says of an error thrown to the caller of a handler.
ErrorCall(path, message) == [op |-> "error", path |-> path, message |-> message]

----------------------------------------------------------------------------
(* The device: handlers *)

\* The history of the metric events and the settings changes.
eventVars == <<everReceived, lastEventMetrics, storeWriteFailed, settingsChanges, metricEvents, emitCount>>

histVars == <<eventVars, slotRestored>>

\* The variables of the single functions but the clock.
unitTimelessVars == <<nextLivesend, savedMetrics, clientCall, clientResult,
                      firstRunHandle, countdownDue, firstRunEnds, firstBoundary, sendFires>>

\* The variables of the single functions but the clock and the countdown capability.
unitCallVars == <<savedMetrics, clientCall, clientResult,
                  firstRunHandle, countdownDue, firstRunEnds, firstBoundary, sendFires>>

\* The variables of the single functions but the Measurement last written.
unitUnsavedVars == <<clockMs, nextLivesend, clientCall, clientResult,
                     firstRunHandle, countdownDue, firstRunEnds, firstBoundary, sendFires>>

coreVars == <<onbalansmarktClient, profilePollerHandle, measurementsSchedulerHandle,
              countdownTimerHandle, timers, tasks, schedulerRuns, pollerRuns>>

\* The capability values of a device that lacks the capabilities `lacking`
\* and none of whose capabilities has a value yet (a value that is null is
\* held as 0 or FALSE where it is read with `|| 0` or `|| false`; `set`:
\* zonneplan_daily_earned has a value).
UnsetCapabilities(lacking) ==
    [missing |-> lacking, adding |-> 0, set |-> FALSE, dailyEarned |-> 0, totalEarned |-> 0,
     dailyCharged |-> 0, dailyDischarged |-> 0, batteryPercentage |-> 0, cycleCount |-> 0,
     loadBalancingActive |-> FALSE]

\* reconstructMetricsFromCapabilities when the clock reads `now`: null while
\* zonneplan_daily_earned has no value, else the capability values with the
\* current time as timestamp.
reconstructMetricsFromCapabilities(caps, now) ==
    IF ~caps.set
    THEN NoMetrics
    ELSE ZonneplanMetrics(caps.dailyEarned, OrZero(caps.totalEarned),
                          OrZero(caps.dailyCharged), OrZero(caps.dailyDischarged),
                          OrZero(caps.batteryPercentage), OrZero(caps.cycleCount),
                          OrFalse(caps.loadBalancingActive), [ms |-> now])

\* restoreLastReceivedMetrics when the clock reads `now`: the Measurement
\* built from the stored object if there is one, else the one
\* reconstructMetricsFromCapabilities builds, else null.
RestoredMetrics(stored, caps, now) ==
    IF stored # NoMetrics
    THEN InstalledAfterRestore(RestoredFromStore(stored, now), now)
    ELSE reconstructMetricsFromCapabilities(caps, now)

\* The capabilities initializeCapabilities looks at, in its order.
CapabilityList ==
    <<"measure_battery", "zonneplan_daily_earned", "zonneplan_total_earned",
      "zonneplan_daily_charged", "zonneplan_daily_discharged",
      "zonneplan_reported_charged", "zonneplan_reported_discharged",
      "zonneplan_cycle_count", "zonneplan_load_balancing", "zonneplan_last_update",
      "zonneplan_overall_rank", "zonneplan_provider_rank", "onbalansmarkt_next_livesend">>

CapabilityNames == {CapabilityList[i] : i \in 1..Len(CapabilityList)}

\* The capability of each ranking value.
RankingCapability ==
    [overallRank |-> "zonneplan_overall_rank", providerRank |-> "zonneplan_provider_rank",
     reportedCharged |-> "zonneplan_reported_charged",
     reportedDischarged |-> "zonneplan_reported_discharged"]

RankingCapabilities == {RankingCapability[f] : f \in DOMAIN RankingCapability}

\* `!this.hasCapability(cap.name)` for the capabilities after number `from`
\* of the list: the number of the first one the device lacks (0: none).
NextMissing(missing, from) ==
    LET later == {i \in (from + 1)..Len(CapabilityList) : CapabilityList[i] \in missing}
    IN  IF later = {} THEN 0 ELSE CHOOSE i \in later : \A j \in later : i <= j

\* The outcomes the host has for the update of the capability `name`: the
\* sets of rejected updates. The update of a capability the device does not
\* have is rejected.
RejectedUpdates(name) ==
    IF name \in capabilities.missing THEN {{name}} ELSE SUBSET (displayFaults \cap {name})

\* The capability values after `setCapabilityValue(cap.name, cap.value)` of
\* initializeCapabilities for the capability `name`.
DefaultSet(caps, name) ==
    IF name = "zonneplan_daily_earned" THEN [caps EXCEPT !.set = TRUE, !.dailyEarned = 0]
    ELSE IF name = "zonneplan_total_earned" THEN [caps EXCEPT !.totalEarned = 0]
    ELSE IF name = "measure_battery" THEN [caps EXCEPT !.batteryPercentage = 0]
    ELSE IF name = "zonneplan_daily_charged" THEN [caps EXCEPT !.dailyCharged = 0]
    ELSE IF name = "zonneplan_daily_discharged" THEN [caps EXCEPT !.dailyDischarged = 0]
    ELSE IF name = "zonneplan_cycle_count" THEN [caps EXCEPT !.cycleCount = 0]
    ELSE IF name = "zonneplan_load_balancing" THEN [caps EXCEPT !.loadBalancingActive = FALSE]
    ELSE caps

\* The ranking values after that call.
DefaultRanked(values, name) ==
    [f \in DOMAIN values |-> IF RankingCapability[f] = name THEN 0 ELSE values[f]]

\* The slot after restoreLastReceivedMetrics: it is assigned only when the
\* Store or the capabilities give a Measurement.
SlotAfterRestore(old, stored, caps, now) ==
    IF RestoredMetrics(stored, caps, now) = NoMetrics
    THEN old
    ELSE RestoredMetrics(stored, caps, now)

\* The capability onbalansmarkt_next_livesend after the timers of d0 were
\* restarted into d, getSetting() reading s and `new Date()` reading now:
\* startCountdownTimer calls updateCountdownDisplay, which hands the value to
\* the host at once; `accepted`: the host does not reject the update.
NextLivesendAfterStart(d0, d, s, now, accepted, old) ==
    IF d.schedRuns > d0.schedRuns /\ accepted
    THEN CountdownValue(old, now, s.startMinute, s.interval)
    ELSE old

\* The outcomes the host has for an update of the countdown capability, the
\* device having the capabilities caps: the update of a capability the device
\* does not have is rejected.
CountdownAccepted(caps) ==
    IF "onbalansmarkt_next_livesend" \in caps.missing THEN {FALSE}
    ELSE IF "onbalansmarkt_next_livesend" \in displayFaults THEN BOOLEAN
    ELSE {TRUE}

\* onInit from restoreLastReceivedMetrics on, the fields being d0, the
\* capabilities caps and the countdown capability showing livesend: the slot
\* is restored, the poller and the scheduler are started.
OnInitRest(d0, caps, livesend) ==
    /\ phase' = "ready"
    /\ lastReceivedMetrics' = SlotAfterRestore(lastReceivedMetrics, storeValue, caps, clockMs)
    /\ slotRestored' = (storeValue # NoMetrics)
    /\ \E accepted \in CountdownAccepted(caps) :
        LET d == startMeasurementsScheduler(startProfilePoller(d0, settings), settings)
        IN  /\ Len(d.tasks) <= MaxTasks
            /\ SetCore(d)
            /\ nextLivesend' = NextLivesendAfterStart(d0, d, settings, clockMs, accepted,
                                                      livesend)
    /\ lastCall' = IF storeValue # NoMetrics THEN RestoredCall ELSE NoCall

\* onInit is called: the client is built and the flow card listeners are
\* registered. With every capability present initializeCapabilities awaits
\* no host call and onInit runs to its end; else it is suspended at the
\* addCapability of the first capability the device lacks.
OnInit ==
    /\ phase = "created"
    /\ LET i == NextMissing(capabilities.missing, 0)
       IN  IF i = 0
           THEN /\ OnInitRest(initializeOnbalansmarktClient(Core, settings), capabilities,
                              nextLivesend)
                /\ UNCHANGED capabilities
           ELSE /\ phase' = "adding"
                /\ capabilities' = [capabilities EXCEPT !.adding = i]
                /\ SetCore(initializeOnbalansmarktClient(Core, settings))
                /\ lastCall' = NoCall
                /\ UNCHANGED <<lastReceivedMetrics, slotRestored, nextLivesend>>
    /\ UNCHANGED <<settings, storeValue, eventVars, rankings, envVars, calcVars,
                   unitRestVars>>

\* The loop of initializeCapabilities goes on after capability number i, the
\* capabilities being caps and the countdown capability showing livesend: it
\* is suspended at the addCapability of the next capability the device
\* lacks; without one initializeCapabilities returns and onInit goes on to
\* its end.
InitializeCapabilitiesGoesOn(i, caps, livesend) ==
    LET j == NextMissing(caps.missing, i)
    IN  IF j = 0
        THEN /\ capabilities' = [caps EXCEPT !.adding = 0]
             /\ OnInitRest(Core, caps, livesend)
        ELSE /\ phase' = "adding"
             /\ capabilities' = [caps EXCEPT !.adding = j]
             /\ nextLivesend' = livesend
             /\ lastCall' = NoCall
             /\ UNCHANGED <<coreVars, lastReceivedMetrics, slotRestored>>

\* The addCapability initializeCapabilities awaits ends: the device has the
\* capability (without a value) and the handler awaits the setCapabilityValue
\* of its default; a rejected addCapability is caught and logged and the
\* loop goes on without the capability.
OnInitCapabilityAdded ==
    /\ phase = "adding"
    /\ \E outcome \in Outcomes :
        IF outcome = "ok"
        THEN /\ phase' = "defaulting"
             /\ capabilities' =
                   [capabilities EXCEPT !.missing = @ \ {CapabilityList[capabilities.adding]}]
             /\ lastCall' = NoCall
             /\ UNCHANGED <<coreVars, lastReceivedMetrics, slotRestored, nextLivesend>>
        ELSE InitializeCapabilitiesGoesOn(capabilities.adding, capabilities, nextLivesend)
    /\ UNCHANGED <<settings, storeValue, eventVars, rankings, envVars, calcVars,
                   unitRestVars>>

\* The setCapabilityValue of the default of a capability that was added
\* ends (a rejected one is caught and logged) and the loop goes on.
OnInitDefaultSet ==
    /\ phase = "defaulting"
    /\ LET name == CapabilityList[capabilities.adding]
       IN  \E failed \in RejectedUpdates(name) :
            /\ rankings' = IF failed = {} THEN DefaultRanked(rankings, name) ELSE rankings
            /\ InitializeCapabilitiesGoesOn(
                  capabilities.adding,
                  IF failed = {} THEN DefaultSet(capabilities, name) ELSE capabilities,
                  IF failed = {} /\ name = "onbalansmarkt_next_livesend"
                  THEN 0 ELSE nextLivesend)
    /\ UNCHANGED <<settings, storeValue, eventVars, envVars, calcVars, unitRestVars>>

\* onUninit: the poller and the scheduler are stopped; the client, the slot
\* and the handlers that are suspended stay as they are.
OnUninit ==
    /\ SetCore(stopMeasurementsScheduler(stopProfilePoller(Core)))
    /\ lastCall' = NoCall
    /\ UNCHANGED <<phase, settings, lastReceivedMetrics, storeValue, capabilities, histVars,
                   rankings, envVars, calcVars, unitVars>>

\* A tick of the countdown interval: updateCountdownDisplay publishes the
\* value computed from the clock and the stored settings.
FireCountdown ==
    /\ \E t \in timers, accepted \in CountdownAccepted(capabilities) :
        /\ t.kind = "countdown"
        /\ nextLivesend' = IF accepted
                           THEN CountdownValue(nextLivesend, clockMs, settings.startMinute,
                                               settings.interval)
                           ELSE nextLivesend
    /\ lastCall' = NoCall
    /\ UNCHANGED <<phase, settings, coreVars, lastReceivedMetrics, storeValue, capabilities,
                   histVars, rankings, envVars, calcVars, unitRestVars>>

\* The first-run timeout t fires: sendScheduledMeasurement runs; without a
\* remote call the callback goes on at once and creates the periodic interval.
FireFirstRun ==
    /\ \E t \in timers :
        /\ t.kind = "timeout"
        /\ ~TimerCallbackHeldBack(t, tasks)
        /\ IF ScheduledSendIssued
           THEN /\ Len(tasks) < MaxTasks
                /\ tasks' = Append(tasks, CallTask("firstRun", "sending", lastReceivedMetrics, t))
                /\ timers' = timers \ {t}
                /\ lastCall' = SubmitCall("scheduled", lastReceivedMetrics, settings)
                /\ UNCHANGED measurementsSchedulerHandle
           ELSE /\ timers' = (timers \ {t}) \cup {IntervalOf(t)}
                /\ measurementsSchedulerHandle' = IntervalOf(t)
                /\ lastCall' = SkipCall("scheduled")
                /\ UNCHANGED tasks
    /\ UNCHANGED <<phase, settings, onbalansmarktClient, profilePollerHandle,
                   countdownTimerHandle, lastReceivedMetrics, schedulerRuns, pollerRuns,
                   storeValue, capabilities, histVars, rankings, envVars, calcVars, unitVars>>

\* The delivery of a first-run callback ends: the callback creates the
\* periodic interval with the period it closed over and stores its handle.
FirstRunDone ==
    /\ \E i \in 1..Len(tasks), outcome \in Outcomes :
        /\ tasks[i].kind = "firstRun"
        /\ IF RequestRepeated(tasks[i], outcome)
           THEN /\ tasks' = RequestMadeAgain(tasks, i)
                /\ lastCall' = RepeatedCall("scheduled")
                /\ UNCHANGED <<timers, measurementsSchedulerHandle>>
           ELSE /\ tasks' = RemoveAt(tasks, i)
                /\ lastCall' = ResponseCall("scheduled", outcome)
                /\ IF DeliveryFailurePropagates(outcome)
                   THEN UNCHANGED <<timers, measurementsSchedulerHandle>>
                   ELSE /\ timers' = timers \cup {IntervalOf(tasks[i].timer)}
                        /\ measurementsSchedulerHandle' = IntervalOf(tasks[i].timer)
    /\ UNCHANGED <<phase, settings, onbalansmarktClient, profilePollerHandle,
                   countdownTimerHandle, lastReceivedMetrics, schedulerRuns, pollerRuns,
                   storeValue, capabilities, histVars, rankings, envVars, calcVars, unitVars>>

\* A periodic send interval fires: sendScheduledMeasurement runs.
FireInterval ==
    /\ \E t \in timers :
        /\ t.kind = "interval"
        /\ ~TimerCallbackHeldBack(t, tasks)
        /\ IF ScheduledSendIssued
           THEN /\ Len(tasks) < MaxTasks
                /\ tasks' = Append(tasks, CallTask("tick", "sending", lastReceivedMetrics, t))
                /\ lastCall' = SubmitCall("scheduled", lastReceivedMetrics, settings)
           ELSE /\ lastCall' = SkipCall("scheduled")
                /\ UNCHANGED tasks
    /\ UNCHANGED <<phase, settings, onbalansmarktClient, profilePollerHandle,
                   measurementsSchedulerHandle, countdownTimerHandle, lastReceivedMetrics,
                   timers, schedulerRuns, pollerRuns, storeValue, capabilities,
                   histVars, rankings, envVars, calcVars, unitVars>>

\* The delivery of a periodic callback ends.
TickDone ==
    /\ \E i \in 1..Len(tasks), outcome \in Outcomes :
        /\ tasks[i].kind = "tick"
        /\ IF RequestRepeated(tasks[i], outcome)
           THEN /\ tasks' = RequestMadeAgain(tasks, i)
                /\ lastCall' = RepeatedCall("scheduled")
           ELSE /\ tasks' = RemoveAt(tasks, i)
                /\ lastCall' = ResponseCall("scheduled", outcome)
    /\ UNCHANGED <<phase, settings, onbalansmarktClient, profilePollerHandle,
                   measurementsSchedulerHandle, countdownTimerHandle, lastReceivedMetrics,
                   timers, schedulerRuns, pollerRuns, storeValue, capabilities,
                   histVars, rankings, envVars, calcVars, unitVars>>

\* The poll interval fires: fetchAndUpdateProfile runs.
FirePoll ==
    /\ \E t \in timers :
        /\ t.kind = "poll"
        /\ ~TimerCallbackHeldBack(t, tasks)
        /\ IF onbalansmarktClient # NoClient
           THEN /\ Len(tasks) < MaxTasks
                /\ tasks' = Append(tasks, CallTask("poll", "fetching", NoMetrics, t))
                /\ lastCall' = [op |-> "fetch"]
           ELSE /\ lastCall' = SkipCall("poll")
                /\ UNCHANGED tasks
    /\ UNCHANGED <<phase, settings, onbalansmarktClient, profilePollerHandle,
                   measurementsSchedulerHandle, countdownTimerHandle, lastReceivedMetrics,
                   timers, schedulerRuns, pollerRuns, storeValue, capabilities,
                   histVars, rankings, envVars, calcVars, unitVars>>

\* `value || 0` of a rank.
RankOrZero(value) == IF value = Null THEN 0 ELSE value

\* One setCapabilityValue of fetchAndUpdateProfile.
RankingUpdate(field, value) ==
    [field |-> field, capability |-> RankingCapability[field], value |-> value]

\* The updates fetchAndUpdateProfile makes for the profile, in its order:
\* with a result for today both ranks and each battery total that is not
\* null; without one the two ranks set to 0.
RankingUpdates(profile) ==
    LET today == profile.resultToday
    IN  IF today # NoResultToday
        THEN <<RankingUpdate("overallRank", RankOrZero(today.overallRank)),
               RankingUpdate("providerRank", RankOrZero(today.providerRank))>>
             \o (IF today.batteryCharged # Null
                 THEN <<RankingUpdate("reportedCharged", today.batteryCharged)>> ELSE <<>>)
             \o (IF today.batteryDischarged # Null
                 THEN <<RankingUpdate("reportedDischarged", today.batteryDischarged)>>
                 ELSE <<>>)
        ELSE <<RankingUpdate("overallRank", 0), RankingUpdate("providerRank", 0)>>

\* The updates made one after the other inside the one try block: the first
\* that throws ends the block, the catch logs it.
RECURSIVE AppliedUntilFailure(_, _, _)
AppliedUntilFailure(values, updates, failed) ==
    IF updates = <<>> \/ Head(updates).capability \in failed
    THEN values
    ELSE AppliedUntilFailure([values EXCEPT ![Head(updates).field] = Head(updates).value],
                             Tail(updates), failed)

\* What the step says of a profile fetch that returned `profile`.
ProfileCall(profile) ==
    [op |-> "response", path |-> "poll", outcome |-> "ok", profile |-> profile,
     requests |-> RequestsMade("ok")]

\* The step's record `call`, with the display updates the host rejects.
AfterDisplay(call, failed) ==
    [f \in DOMAIN call \cup {"displayFailed"} |->
        IF f = "displayFailed" THEN failed ELSE call[f]]

\* What the step says of the setCapabilityValue number `update` of the
\* updates for `profile` that ended; failed: the capability whose update the
\* host rejected (none: {}); ended: fetchAndUpdateProfile has returned.
RankedCall(profile, update, failed, ended) ==
    [op |-> "ranked", path |-> "poll", profile |-> profile, update |-> update,
     displayFailed |-> failed, ended |-> ended]

\* The handlers of fetchAndUpdateProfile that await a setCapabilityValue.
RankingInFlight == {i \in 1..Len(tasks) : tasks[i].kind = "poll" /\ tasks[i].pc = "ranking"}

\* getProfile of a profile fetch ends: a failure is caught and logged and
\* the handler ends; with a profile the handler calls the first
\* setCapabilityValue and awaits it.
PollDone ==
    /\ \E i \in 1..Len(tasks), outcome \in Outcomes, profile \in remoteProfiles :
        /\ tasks[i].kind = "poll"
        /\ tasks[i].pc = "fetching"
        /\ IF RequestRepeated(tasks[i], outcome)
           THEN /\ tasks' = RequestMadeAgain(tasks, i)
                /\ lastCall' = RepeatedCall("poll")
           ELSE IF outcome = "ok"
           THEN /\ tasks' = [tasks EXCEPT ![i].pc = "ranking", ![i].metrics = profile]
                /\ lastCall' = ProfileCall(profile)
           ELSE /\ tasks' = RemoveAt(tasks, i)
                /\ lastCall' = ResponseCall("poll", outcome)
    /\ UNCHANGED <<phase, settings, onbalansmarktClient, profilePollerHandle,
                   measurementsSchedulerHandle, countdownTimerHandle, lastReceivedMetrics,
                   timers, schedulerRuns, pollerRuns, storeValue, capabilities, rankings,
                   histVars, envVars, calcVars, unitVars>>

\* A setCapabilityValue of fetchAndUpdateProfile ends: the handler has made
\* tasks[i].value updates before. A rejected update ends the try block (the
\* catch logs it and the handler ends); after an accepted one the handler
\* awaits the next update, or ends after the last.
PollRankPublished ==
    /\ \E i \in RankingInFlight :
        LET updates == RankingUpdates(tasks[i].metrics)
            n == tasks[i].value + 1
            update == updates[n]
        IN  \E failed \in RejectedUpdates(update.capability) :
                /\ rankings' = AppliedUntilFailure(rankings, <<update>>, failed)
                /\ tasks' = IF failed # {} \/ n = Len(updates)
                            THEN RemoveAt(tasks, i)
                            ELSE [tasks EXCEPT ![i].value = n]
                /\ lastCall' = RankedCall(tasks[i].metrics, n, failed,
                                          failed # {} \/ n = Len(updates))
    /\ UNCHANGED <<phase, settings, onbalansmarktClient, profilePollerHandle,
                   measurementsSchedulerHandle, countdownTimerHandle, lastReceivedMetrics,
                   timers, schedulerRuns, pollerRuns, storeValue, capabilities,
                   histVars, envVars, calcVars, unitVars>>

\* The names of the `updates` of updateCapabilities, in its order.
UpdateList ==
    <<"measure_battery", "zonneplan_daily_earned", "zonneplan_total_earned",
      "zonneplan_daily_charged", "zonneplan_daily_discharged", "zonneplan_cycle_count",
      "zonneplan_load_balancing", "zonneplan_last_update">>

\* `this.lastReceivedMetrics = metrics`: the slot after a metric event with
\* the metrics m, whatever it held before.
SlotOnReceive(old, m) == m

\* The handler of an ingestion when handleReceivedMetrics is suspended for
\* the first time, getSetting() reading s: at the setStoreValue of
\* saveMetricsToStore; for an Invalid Date toISOString throws a RangeError
\* before setStoreValue is called, saveMetricsToStore catches and logs it, and
\* updateCapabilities computes adjustedTotal and awaits its first update.
IngestionStarted(m, s) ==
    IF m.timestamp # InvalidDate
    THEN Task("ingest", "save", m, NoTimer, 0)
    ELSE Task("ingest", UpdateList[1], m, NoTimer, m.totalEarned + EffOffset(s))

\* The flow card 'receive_zonneplan_metrics' runs with the metrics m:
\* handleReceivedMetrics replaces the current Measurement and calls
\* saveMetricsToStore. The flows deliver MaxMetricEvents events, and one is
\* delivered while fewer than ingestionsAtOnce handlers of events before it
\* are suspended.
ReceiveMetrics ==
    /\ phase # "created"
    /\ metricEvents < MaxMetricEvents
    /\ Len(tasks) < MaxTasks
    /\ Cardinality({i \in 1..Len(tasks) : tasks[i].kind = "ingest"}) < ingestionsAtOnce
    /\ \E m \in eventSamples :
        /\ lastReceivedMetrics' = SlotOnReceive(lastReceivedMetrics, m)
        /\ tasks' = Append(tasks, IngestionStarted(m, settings))
        /\ lastEventMetrics' = m
        /\ storeWriteFailed' = (storeWriteFailed \/ m.timestamp = InvalidDate)
    /\ everReceived' = TRUE
    /\ slotRestored' = FALSE
    /\ metricEvents' = metricEvents + 1
    /\ lastCall' = NoCall
    /\ UNCHANGED <<phase, settings, onbalansmarktClient, profilePollerHandle,
                   measurementsSchedulerHandle, countdownTimerHandle, timers,
                   schedulerRuns, pollerRuns, storeValue, capabilities,
                   settingsChanges, emitCount, rankings, envVars, calcVars, unitVars>>

\* Whether saveMetricsToStore lets a failure of setStoreValue reach
\* handleReceivedMetrics: its try/catch logs the failure and returns.
StoreFailurePropagates(outcome) == FALSE

\* What the step says of the setStoreValue of `metrics` that ended.
SavedCall(metrics, outcome) == [op |-> "saved", measurement |-> metrics, outcome |-> outcome]

\* setStoreValue of an ingestion ends (a failure is caught and logged);
\* updateCapabilities computes adjustedTotal and awaits the display updates.
IngestSaved ==
    /\ \E i \in 1..Len(tasks), outcome \in Outcomes :
        /\ tasks[i].kind = "ingest"
        /\ tasks[i].pc = "save"
        /\ storeValue' = IF StoreWritten(tasks[i].metrics, outcome)
                         THEN StoredObject(tasks[i].metrics) ELSE storeValue
        /\ savedMetrics' = IF StoreWritten(tasks[i].metrics, outcome)
                           THEN tasks[i].metrics ELSE savedMetrics
        /\ IF StoreFailurePropagates(outcome)
           THEN /\ tasks' = RemoveAt(tasks, i)
                /\ lastCall' = ErrorCall("ingest", "Failed to save metrics to Store")
           ELSE /\ tasks' = [tasks EXCEPT
                                ![i].pc = UpdateList[1],
                                ![i].value = tasks[i].metrics.totalEarned + EffOffset(settings)]
                /\ lastCall' = SavedCall(tasks[i].metrics, outcome)
        /\ storeWriteFailed' = (storeWriteFailed \/ outcome = "fail")
    /\ UNCHANGED <<phase, settings, onbalansmarktClient, profilePollerHandle,
                   measurementsSchedulerHandle, countdownTimerHandle, lastReceivedMetrics,
                   timers, schedulerRuns, pollerRuns, capabilities, everReceived,
                   lastEventMetrics, settingsChanges, metricEvents, emitCount, slotRestored,
                   rankings, envVars, calcVars, unitUnsavedVars>>

\* Mutant of EmitCall: the trigger carries the raw lifetime total.
EmitCallRawTotal(m, s, delivered) ==
    [op |-> "emit", measurement |-> m, delivered |-> delivered,
     daily_earned |-> m.dailyEarned, total_earned |-> m.totalEarned]

\* What the step says of the 'zonneplan_metrics_updated' trigger emitted for
\* m; delivered: the handler called the client before.
EmitCall(m, s, delivered) ==
    [op |-> "emit", measurement |-> m, delivered |-> delivered,
     daily_earned |-> m.dailyEarned, total_earned |-> m.totalEarned + EffOffset(s)]

\* The display values of a Measurement whose rejection by the host is
\* explored (two of the eight updateCapabilities publishes).
DisplayNames == {"zonneplan_daily_earned", "zonneplan_total_earned"}

\* The update the loop of updateCapabilities awaits after the one of `name`.
NextUpdate(name) ==
    UpdateList[1 + CHOOSE n \in 1..(Len(UpdateList) - 1) : UpdateList[n] = name]

\* Mutant of PublishedValue: the first failing update ends the loop.
PublishedValueUntilFailure(name, failed, old, new) ==
    IF name \in failed \/ "zonneplan_daily_earned" \in failed THEN old ELSE new

\* The value of the capability `name` after its update in the loop of
\* updateCapabilities, the updates in `failed` having thrown: each update is
\* tried and caught on its own.
PublishedValue(name, failed, old, new) == IF name \in failed THEN old ELSE new

\* The capability values after the setCapabilityValue of the update `name`
\* of updateCapabilities for the metrics m, adjustedTotal being `total` and
\* the updates in `failed` having thrown (zonneplan_last_update is a text
\* that no code reads back: it is not held).
UpdatedCapabilities(caps, name, m, total, failed) ==
    IF name = "measure_battery"
    THEN [caps EXCEPT !.batteryPercentage = PublishedValue(name, failed, @, m.batteryPercentage)]
    ELSE IF name = "zonneplan_daily_earned"
    THEN [caps EXCEPT !.set = @ \/ name \notin failed,
                      !.dailyEarned = PublishedValue(name, failed, @, m.dailyEarned)]
    ELSE IF name = "zonneplan_total_earned"
    THEN [caps EXCEPT !.totalEarned = PublishedValue(name, failed, @, total)]
    ELSE IF name = "zonneplan_daily_charged"
    THEN [caps EXCEPT !.dailyCharged = PublishedValue(name, failed, @, m.dailyCharged)]
    ELSE IF name = "zonneplan_daily_discharged"
    THEN [caps EXCEPT !.dailyDischarged = PublishedValue(name, failed, @, m.dailyDischarged)]
    ELSE IF name = "zonneplan_cycle_count"
    THEN [caps EXCEPT !.cycleCount = PublishedValue(name, failed, @, m.cycleCount)]
    ELSE IF name = "zonneplan_load_balancing"
    THEN [caps EXCEPT !.loadBalancingActive =
                         PublishedValue(name, failed, @, m.loadBalancingActive)]
    ELSE caps

\* What the step says of a display update of an ingestion that ended.
PublishedCall(name, m, failed) ==
    [op |-> "published", capability |-> name, measurement |-> m, displayFailed |-> failed]

\* One iteration of the loop of updateCapabilities: the setCapabilityValue of
\* the update `name` an ingestion awaits ends (a rejected update is caught
\* and logged), and the loop awaits the update after it.
CapabilityUpdated(name) ==
    \E i \in 1..Len(tasks), rejected \in RejectedUpdates(name) :
        LET m == tasks[i].metrics
            failed == tasks[i].failed \cup rejected
        IN  /\ tasks[i].kind = "ingest"
            /\ tasks[i].pc = name
            /\ capabilities' = UpdatedCapabilities(capabilities, name, m, tasks[i].value,
                                                   failed)
            /\ tasks' = [tasks EXCEPT ![i].pc = NextUpdate(name), ![i].failed = failed]
            /\ lastCall' = PublishedCall(name, m, failed)

\* The variables a display update of an ingestion leaves alone.
displayFrame == <<phase, settings, onbalansmarktClient, profilePollerHandle,
                  measurementsSchedulerHandle, countdownTimerHandle, lastReceivedMetrics,
                  timers, schedulerRuns, pollerRuns, storeValue, histVars, rankings,
                  envVars, calcVars, unitVars>>

\* The update of measure_battery of an ingestion ends.
IngestBatteryPublished ==
    /\ CapabilityUpdated("measure_battery")
    /\ UNCHANGED displayFrame

\* The update of zonneplan_daily_earned of an ingestion ends.
IngestDailyPublished ==
    /\ CapabilityUpdated("zonneplan_daily_earned")
    /\ UNCHANGED displayFrame

\* The update of zonneplan_total_earned of an ingestion ends.
IngestPublished ==
    /\ CapabilityUpdated("zonneplan_total_earned")
    /\ UNCHANGED displayFrame

\* The update of zonneplan_daily_charged of an ingestion ends.
IngestChargedPublished ==
    /\ CapabilityUpdated("zonneplan_daily_charged")
    /\ UNCHANGED displayFrame

\* The update of zonneplan_daily_discharged of an ingestion ends.
IngestDischargedPublished ==
    /\ CapabilityUpdated("zonneplan_daily_discharged")
    /\ UNCHANGED displayFrame

\* The update of zonneplan_cycle_count of an ingestion ends.
IngestCycleCountPublished ==
    /\ CapabilityUpdated("zonneplan_cycle_count")
    /\ UNCHANGED displayFrame

\* The update of zonneplan_load_balancing of an ingestion ends.
IngestLoadBalancingPublished ==
    /\ CapabilityUpdated("zonneplan_load_balancing")
    /\ UNCHANGED displayFrame

\* The last update of updateCapabilities ends (zonneplan_last_update; a
\* rejected update is caught and logged) and updateCapabilities returns;
\* with auto_send_measurements the zero-result policy is consulted and
\* sendToOnbalansmarkt called; without a remote call the trigger is emitted
\* and the handler ends.
IngestCapabilitiesUpdated ==
    /\ \E i \in 1..Len(tasks), rejected \in RejectedUpdates("zonneplan_last_update") :
        LET m == tasks[i].metrics
            failed == tasks[i].failed \cup rejected
        IN  /\ tasks[i].kind = "ingest"
            /\ tasks[i].pc = "zonneplan_last_update"
            /\ IF /\ settings.autoSend
                  /\ ~ZeroResultSkipped(m, settings)
                  /\ onbalansmarktClient # NoClient
                  /\ RequestIssued(m)
               THEN /\ tasks' = [tasks EXCEPT ![i].pc = "sending", ![i].requests = 1]
                    /\ lastCall' = AfterDisplay(SubmitCall("auto", m, settings), failed)
                    /\ UNCHANGED emitCount
               ELSE /\ tasks' = RemoveAt(tasks, i)
                    /\ lastCall' = AfterDisplay(EmitCall(m, settings, FALSE), failed)
                    /\ emitCount' = emitCount + 1
    /\ UNCHANGED <<phase, settings, onbalansmarktClient, profilePollerHandle,
                   measurementsSchedulerHandle, countdownTimerHandle, lastReceivedMetrics,
                   timers, schedulerRuns, pollerRuns, storeValue, capabilities,
                   everReceived, lastEventMetrics, storeWriteFailed, settingsChanges,
                   metricEvents, slotRestored, rankings, envVars, calcVars, unitVars>>

\* The delivery of an ingestion ends (a failure is caught and logged); the
\* trigger is emitted and the handler ends.
IngestSendDone ==
    /\ \E i \in 1..Len(tasks), outcome \in Outcomes :
        /\ tasks[i].kind = "ingest"
        /\ tasks[i].pc = "sending"
        /\ IF RequestRepeated(tasks[i], outcome)
           THEN /\ tasks' = RequestMadeAgain(tasks, i)
                /\ lastCall' = RepeatedCall("auto")
                /\ UNCHANGED emitCount
           ELSE /\ tasks' = RemoveAt(tasks, i)
                /\ lastCall' = AfterRequest(EmitCall(tasks[i].metrics, settings, TRUE),
                                             outcome)
                /\ emitCount' = emitCount + 1
    /\ UNCHANGED <<phase, settings, onbalansmarktClient, profilePollerHandle,
                   measurementsSchedulerHandle, countdownTimerHandle, lastReceivedMetrics,
                   timers, schedulerRuns, pollerRuns, storeValue, capabilities,
                   everReceived, lastEventMetrics, storeWriteFailed, settingsChanges,
                   metricEvents, slotRestored, rankings, envVars, calcVars, unitVars>>

\* The flow card 'send_live_measurement' runs: without a Measurement it
\* throws; sendLiveMeasurement throws without a client; for an Invalid Date
\* the toISOString of its log line throws a RangeError, which is logged and
\* thrown on; else it calls the client.
ManualSend ==
    /\ phase # "created"
    /\ IF lastReceivedMetrics = NoMetrics
       THEN /\ lastCall' = ErrorCall("manual", "No metrics available")
            /\ UNCHANGED tasks
       ELSE IF onbalansmarktClient = NoClient
       THEN /\ lastCall' = ErrorCall("manual", "API key not configured")
            /\ UNCHANGED tasks
       ELSE IF lastReceivedMetrics.timestamp = InvalidDate
       THEN /\ lastCall' = ErrorCall("manual", "Invalid time value")
            /\ UNCHANGED tasks
       ELSE /\ Len(tasks) < MaxTasks
            /\ tasks' = Append(tasks, CallTask("manual", "sending", lastReceivedMetrics, NoTimer))
            /\ lastCall' = SubmitCall("manual", lastReceivedMetrics, settings)
    /\ UNCHANGED <<phase, settings, onbalansmarktClient, profilePollerHandle,
                   measurementsSchedulerHandle, countdownTimerHandle, lastReceivedMetrics,
                   timers, schedulerRuns, pollerRuns, storeValue, capabilities,
                   histVars, rankings, envVars, calcVars, unitVars>>

\* The delivery of a manual send ends: a failure is logged and thrown on to
\* the flow card.
ManualDone ==
    /\ \E i \in 1..Len(tasks), outcome \in Outcomes :
        /\ tasks[i].kind = "manual"
        /\ IF RequestRepeated(tasks[i], outcome)
           THEN /\ tasks' = RequestMadeAgain(tasks, i)
                /\ lastCall' = RepeatedCall("manual")
           ELSE /\ tasks' = RemoveAt(tasks, i)
                /\ lastCall' = IF outcome = "fail"
                               THEN AfterRequest(ErrorCall("manual",
                                                           "Failed to send measurement"),
                                                 outcome)
                               ELSE ResponseCall("manual", outcome)
    /\ UNCHANGED <<phase, settings, onbalansmarktClient, profilePollerHandle,
                   measurementsSchedulerHandle, countdownTimerHandle, lastReceivedMetrics,
                   timers, schedulerRuns, pollerRuns, storeValue, capabilities,
                   histVars, rankings, envVars, calcVars, unitVars>>

\* What getSetting() returns while onSettings runs. The host calls onSettings
\* with the new settings as an argument and stores them only when the handler
\* has resolved (a handler that throws rejects the change), so the handler's
\* getSetting() calls still read the settings from before the change.
SettingsDuringOnSettings(old, new) == old

\* Mutant of OnSettingsCore: every settings change restarts the scheduler.
OnSettingsCoreRestartingScheduler(d, s, changed) ==
    LET d1 == IF "apiKey" \in changed
              THEN startProfilePoller(initializeOnbalansmarktClient(d, s), s)
              ELSE d
        d2 == IF "pollInterval" \in changed THEN startProfilePoller(d1, s) ELSE d1
    IN  startMeasurementsScheduler(d2, s)

\* The timer part of onSettings for the changed keys, getSetting() reading s.
OnSettingsCore(d, s, changed) ==
    LET d1 == IF "apiKey" \in changed
              THEN startMeasurementsScheduler(
                     startProfilePoller(initializeOnbalansmarktClient(d, s), s), s)
              ELSE d
        d2 == IF "pollInterval" \in changed THEN startProfilePoller(d1, s) ELSE d1
    IN  IF changed \cap {"enabled", "interval", "startMinute"} # {}
        THEN startMeasurementsScheduler(d2, s)
        ELSE d2

\* `changedKeys.includes('trigger_live_send') && newSettings.trigger_live_send === true`
SimulationTriggered(changed, new) == "trigger" \in changed /\ new.trigger

\* The stored settings after a `setSettings({ trigger_live_send: false })`
\* that onSettings awaits. Whether the host accepts the call while the
\* handler of a settings change is pending is not in the source: the call
\* resolves ("ok", the value is stored) or is rejected ("fail").
setSettings(stored, outcome) ==
    IF outcome = "ok" THEN [stored EXCEPT !.trigger = FALSE] ELSE stored

\* What the step says of a simulateLiveMeasurement for `metrics`, getSetting()
\* reading s: the values are logged, nothing is sent.
SimulationCall(metrics, s) ==
    [op |-> "simulation", measurement |-> metrics,
     batteryResultTotal |-> BatteryResultTotal(metrics, s), mode |-> EffMode(s)]

\* What the step says of an onSettings handler that resolved.
ResolvedCall == [op |-> "resolved", path |-> "settings"]

\* The timer part of onSettings, the fields being d0.
OnSettingsTimers(d0, new) ==
    LET changed == ChangedKeys(settings, new)
        during == SettingsDuringOnSettings(settings, new)
    IN  \E accepted \in CountdownAccepted(capabilities) :
            LET d == OnSettingsCore(d0, during, changed)
            IN  /\ Len(d.tasks) <= MaxTasks
                /\ SetCore(d)
                /\ nextLivesend' = NextLivesendAfterStart(d0, d, during, clockMs, accepted,
                                                          nextLivesend)

\* onSettings from the timer part to its end, the fields being d0, for a
\* change that triggers no simulation: the handler resolves without having
\* been suspended, and the new settings are the stored ones.
OnSettingsRest(d0, new) ==
    /\ OnSettingsTimers(d0, new)
    /\ settings' = new

\* The handlers of onSettings that have not ended.
SettingsInFlight == {i \in 1..Len(tasks) : tasks[i].kind = "settings"}

\* Mutant of ResetAwaited: without a Measurement onSettings throws at once.
ResetAwaitedWithMetrics(metrics) == metrics # NoMetrics

\* Whether the trigger branch of onSettings, entered with the current
\* Measurement `metrics`, awaits `setSettings({ trigger_live_send: false })`
\* before it ends: on each of its three paths.
ResetAwaited(metrics) == TRUE

\* The await at which the trigger branch of onSettings is suspended first:
\* the reset before the throw for want of a Measurement; the reset in the
\* catch when simulateLiveMeasurement threw (the toISOString of its log line
\* throws a RangeError for an Invalid Date); else the reset after the
\* simulation.
ResetAfterSimulation(metrics) ==
    IF metrics = NoMetrics THEN "resetNoMetrics"
    ELSE IF metrics.timestamp = InvalidDate THEN "resetAfterThrow"
    ELSE "resetAfterSimulation"

\* The message of the error onSettings throws when the reset it awaited at
\* pc has ended: the error of a rejected reset, else the error it held.
ThrownAfterReset(pc, outcome) ==
    IF outcome = "fail" \/ pc = "resetAfterReject" THEN "setSettings failed"
    ELSE IF pc = "resetNoMetrics" THEN "No metrics available for simulation"
    ELSE "Invalid time value"

\* onSettings({ newSettings, changedKeys }) is called. A simulation trigger
\* logs the simulation of the current Measurement (if there is one) and is
\* suspended at `setSettings({ trigger_live_send: false })`; any other change
\* runs to its end, and the host stores the new settings.
OnSettings ==
    /\ phase # "created"
    /\ settingsChanges < MaxSettingsChanges
    /\ SettingsInFlight = {}
    /\ \E new \in NewSettings(settings) :
        LET changed == ChangedKeys(settings, new)
            during == SettingsDuringOnSettings(settings, new)
        IN  /\ changed # {}
            /\ changed \in ChangeSets
            /\ IF SimulationTriggered(changed, new)
               THEN /\ IF ResetAwaited(lastReceivedMetrics)
                       THEN /\ Len(tasks) < MaxTasks
                            /\ tasks' = Append(tasks,
                                   [Task("settings", ResetAfterSimulation(lastReceivedMetrics),
                                         lastReceivedMetrics, NoTimer, 0) EXCEPT !.new = new])
                            /\ lastCall' =
                                  IF ResetAfterSimulation(lastReceivedMetrics)
                                        = "resetAfterSimulation"
                                  THEN SimulationCall(lastReceivedMetrics, during)
                                  ELSE NoCall
                       ELSE /\ tasks' = tasks
                            /\ lastCall' = ErrorCall("settings",
                                   ThrownAfterReset(ResetAfterSimulation(lastReceivedMetrics),
                                                    "ok"))
                    /\ UNCHANGED <<settings, onbalansmarktClient, profilePollerHandle,
                                   measurementsSchedulerHandle, countdownTimerHandle,
                                   timers, schedulerRuns, pollerRuns, nextLivesend>>
               ELSE /\ OnSettingsRest(Core, new)
                    /\ lastCall' = NoCall
    /\ settingsChanges' = settingsChanges + 1
    /\ UNCHANGED <<phase, lastReceivedMetrics, storeValue, capabilities,
                   everReceived, lastEventMetrics, storeWriteFailed, metricEvents, emitCount,
                   slotRestored, rankings, envVars, calcVars, unitRestVars>>

\* What the step says of a reset after the simulation that the host
\* rejected: the error is caught and logged.
ResetRejectedCall == [op |-> "resetRejected", path |-> "settings"]

\* A `setSettings({ trigger_live_send: false })` that onSettings awaits ends.
\* The reset before the throw for want of a Measurement and the reset in the
\* catch are followed by the throw (of the error of the reset, if it was
\* rejected); a rejected reset after the simulation is caught, and the reset
\* of the catch is awaited; after an accepted one the handler goes on to the
\* timer part and resolves.
OnSettingsResetDone ==
    /\ \E i \in SettingsInFlight, resetOutcome \in Outcomes :
        /\ tasks[i].pc # "resolved"
        /\ settings' = setSettings(settings, resetOutcome)
        /\ IF tasks[i].pc # "resetAfterSimulation"
           THEN /\ tasks' = RemoveAt(tasks, i)
                /\ lastCall' = ErrorCall("settings",
                                         ThrownAfterReset(tasks[i].pc, resetOutcome))
                /\ UNCHANGED <<onbalansmarktClient, profilePollerHandle,
                               measurementsSchedulerHandle, countdownTimerHandle,
                               timers, schedulerRuns, pollerRuns, nextLivesend>>
           ELSE IF resetOutcome = "fail"
           THEN /\ tasks' = [tasks EXCEPT ![i].pc = "resetAfterReject"]
                /\ lastCall' = ResetRejectedCall
                /\ UNCHANGED <<onbalansmarktClient, profilePollerHandle,
                               measurementsSchedulerHandle, countdownTimerHandle,
                               timers, schedulerRuns, pollerRuns, nextLivesend>>
           ELSE /\ OnSettingsTimers([Core EXCEPT !.tasks = [tasks EXCEPT ![i].pc = "resolved"]],
                                    tasks[i].new)
                /\ lastCall' = ResolvedCall
    /\ UNCHANGED <<phase, lastReceivedMetrics, storeValue, capabilities, histVars,
                   rankings, envVars, calcVars, unitRestVars>>

\* The host ends the settings change of a handler that has resolved after
\* its reset: it stores the newSettings it called the handler with. Whether
\* their trigger_live_send replaces the value the handler's setSettings has
\* stored is not in the source: it does (the checkbox stays on) or it does
\* not.
OnSettingsStored ==
    /\ \E i \in SettingsInFlight, resetKept \in BOOLEAN :
        /\ tasks[i].pc = "resolved"
        /\ settings' = [tasks[i].new EXCEPT
                          !.trigger = IF resetKept THEN settings.trigger ELSE @]
        /\ tasks' = RemoveAt(tasks, i)
    /\ lastCall' = NoCall
    /\ UNCHANGED <<phase, onbalansmarktClient, profilePollerHandle,
                   measurementsSchedulerHandle, countdownTimerHandle, lastReceivedMetrics,
                   timers, schedulerRuns, pollerRuns, storeValue, capabilities,
                   histVars, rankings, envVars, calcVars, unitVars>>

----------------------------------------------------------------------------
(* Spec: the device from the start of its process *)

\* The variables of the timed scheduler before it is started.
SchedIdle ==
    /\ firstRunHandle = NoTimer
    /\ countdownDue = NoTime
    /\ firstRunEnds = NoTime
    /\ firstBoundary = NoTime
    /\ sendFires = 0

\* The variables of the single functions while they are not explored.
UnitIdle ==
    /\ clockMs = 0
    /\ nextLivesend = 0
    /\ savedMetrics = NoMetrics
    /\ clientCall = NoCall
    /\ clientResult = NoCall
    /\ SchedIdle

\* The settings of a device that is not configured.
IdleSettings ==
    [apiKey |-> "", pollInterval |-> 300, enabled |-> FALSE,
     interval |-> 15, startMinute |-> 0, reportZero |-> FALSE,
     autoSend |-> FALSE, offset |-> 0, mode |-> "manual", trigger |-> FALSE]

\* The fields of a device that is constructed and not started, with its
\* environment.
DeviceFieldsIdle ==
    /\ phase = "created"
    /\ onbalansmarktClient = NoClient
    /\ profilePollerHandle = NoTimer
    /\ measurementsSchedulerHandle = NoTimer
    /\ countdownTimerHandle = NoTimer
    /\ lastReceivedMetrics = NoMetrics
    /\ timers = {}
    /\ schedulerRuns = 0
    /\ pollerRuns = 0
    /\ tasks = <<>>
    /\ storeValue = NoMetrics
    /\ capabilities = UnsetCapabilities({})
    /\ everReceived = FALSE
    /\ lastEventMetrics = NoMetrics
    /\ storeWriteFailed = FALSE
    /\ settingsChanges = 0
    /\ metricEvents = 0
    /\ emitCount = 0
    /\ slotRestored = FALSE
    /\ rankings = DefaultRankings
    /\ remoteProfiles = {[resultToday |-> NoResultToday]}
    /\ displayFaults = {}
    /\ eventSamples = {}
    /\ restartClocks = {}
    /\ ingestionsAtOnce = 1
    /\ lastCall = NoCall

\* The device variables while only the computation is explored.
DeviceIdle ==
    /\ settings = IdleSettings
    /\ DeviceFieldsIdle

\* The computation's variables while the device is explored.
CalcIdle ==
    /\ calcNow = 0
    /\ calcStart = 0
    /\ calcInterval = 0
    /\ calcNext = NoTime
    /\ calcPrev = NoTime
    /\ calcCount = 0

\* The capabilities a device lacks when its process starts: none, or those
\* that a later version of the app added.
MissingSamples ==
    {{}, {"zonneplan_daily_earned"}, {"zonneplan_overall_rank"},
     {"onbalansmarkt_next_livesend"}}

\* A device whose process starts: no metric event has been received yet, the
\* Store is empty, the settings are whatever is stored, and the capabilities
\* are present and unset or not yet added to the device. The remote service
\* answers with one of `profiles`, the host rejects any of the capability
\* updates `faults`, the flows deliver any of the metrics `events`, at most
\* `atOnce` of them while the handler of another has not ended, and the
\* process is started again at any of the times `clocks`.
DeviceStartWith(profiles, faults, events, clocks, atOnce) ==
    /\ CalcIdle
    /\ phase = "created"
    /\ settings \in InitialSettings
    /\ onbalansmarktClient = NoClient
    /\ profilePollerHandle = NoTimer
    /\ measurementsSchedulerHandle = NoTimer
    /\ countdownTimerHandle = NoTimer
    /\ lastReceivedMetrics = NoMetrics
    /\ timers = {}
    /\ schedulerRuns = 0
    /\ pollerRuns = 0
    /\ tasks = <<>>
    /\ storeValue = NoMetrics
    /\ capabilities \in {UnsetCapabilities(lacking) : lacking \in MissingSamples}
    /\ everReceived = FALSE
    /\ lastEventMetrics = NoMetrics
    /\ storeWriteFailed = FALSE
    /\ settingsChanges = 0
    /\ metricEvents = 0
    /\ emitCount = 0
    /\ slotRestored = FALSE
    /\ rankings = DefaultRankings
    /\ remoteProfiles = profiles
    /\ displayFaults = faults
    /\ eventSamples = events
    /\ restartClocks = clocks
    /\ ingestionsAtOnce = atOnce
    /\ lastCall = NoCall
    /\ UnitIdle

\* The device when its process starts, the flows delivering the metric events
\* with the two results, each after the handler of the one before has ended,
\* and the process not being started again later.
DeviceStart(profiles, faults) ==
    DeviceStartWith(profiles, faults, MetricEventSamples, {}, 1)

\* The start of a device that has its capabilities, whose account has no
\* result for today and whose host accepts every capability update; auto-send
\* is on at the start only while no API key is entered (SpecIngest starts
\* with a key and auto-send on).
Init ==
    /\ DeviceStart({[resultToday |-> NoResultToday]}, {})
    /\ capabilities.missing = {}
    /\ settings.autoSend => settings.apiKey = ""

Next ==
    \/ OnInit
    \/ OnSettings
    \/ OnSettingsResetDone
    \/ OnSettingsStored
    \/ FireCountdown
    \/ FireFirstRun
    \/ FirstRunDone
    \/ FireInterval
    \/ TickDone
    \/ FirePoll
    \/ PollDone
    \/ PollRankPublished
    \/ ReceiveMetrics
    \/ IngestSaved
    \/ IngestBatteryPublished
    \/ IngestDailyPublished
    \/ IngestPublished
    \/ IngestChargedPublished
    \/ IngestDischargedPublished
    \/ IngestCycleCountPublished
    \/ IngestLoadBalancingPublished
    \/ IngestCapabilitiesUpdated
    \/ IngestSendDone
    \/ ManualSend
    \/ ManualDone

Spec == Init /\ [][Next]_vars

----------------------------------------------------------------------------
(* SpecFirstStart: the start of a device with an API key that lacks a        *)
(* capability (the daily result or the countdown), so that onInit is         *)
(* suspended in initializeCapabilities while the flow cards, onSettings and  *)
(* the timers onSettings starts can run.                                     *)

InitFirstStart ==
    /\ DeviceStart({[resultToday |-> NoResultToday]}, {})
    /\ capabilities.missing \in {{"zonneplan_daily_earned"}, {"onbalansmarkt_next_livesend"}}
    /\ settings.apiKey = "k"
    /\ settings.enabled
    /\ settings.reportZero
    /\ ~settings.autoSend

NextFirstStart ==
    \/ OnInit
    \/ OnInitCapabilityAdded
    \/ OnInitDefaultSet
    \/ OnSettings
    \/ OnSettingsResetDone
    \/ OnSettingsStored
    \/ FireFirstRun
    \/ FirstRunDone
    \/ PollDone
    \/ PollRankPublished
    \/ ReceiveMetrics
    \/ IngestSaved
    \/ IngestBatteryPublished
    \/ IngestDailyPublished
    \/ IngestPublished
    \/ IngestChargedPublished
    \/ IngestDischargedPublished
    \/ IngestCycleCountPublished
    \/ IngestLoadBalancingPublished
    \/ IngestCapabilitiesUpdated
    \/ IngestSendDone
    \/ ManualSend
    \/ ManualDone

SpecFirstStart == InitFirstStart /\ [][NextFirstStart]_vars

----------------------------------------------------------------------------
(* SpecLive: the send loop of a device that is started with the scheduler    *)
(* enabled and an API key, and whose settings are not changed. A timer that  *)
(* is live fires again and again, and every remote call and every host call  *)
(* that is awaited ends (resolves or throws).                                *)

InitLive ==
    /\ DeviceStart({[resultToday |-> NoResultToday]}, {})
    /\ capabilities.missing = {}
    /\ settings.enabled
    /\ settings.apiKey = "k"

NextLive ==
    \/ OnInit
    \/ FireCountdown
    \/ FireFirstRun
    \/ FirstRunDone
    \/ FireInterval
    \/ TickDone
    \/ FirePoll
    \/ PollDone
    \/ PollRankPublished
    \/ ReceiveMetrics
    \/ IngestSaved
    \/ IngestBatteryPublished
    \/ IngestDailyPublished
    \/ IngestPublished
    \/ IngestChargedPublished
    \/ IngestDischargedPublished
    \/ IngestCycleCountPublished
    \/ IngestLoadBalancingPublished
    \/ IngestCapabilitiesUpdated
    \/ IngestSendDone

SpecLive ==
    /\ InitLive
    /\ [][NextLive]_vars
    /\ WF_vars(OnInit)
    /\ SF_vars(FireFirstRun)
    /\ SF_vars(FireInterval)
    /\ WF_vars(FirstRunDone)
    /\ WF_vars(TickDone)
    /\ WF_vars(PollDone)
    /\ WF_vars(PollRankPublished)
    /\ WF_vars(IngestSaved)
    /\ WF_vars(IngestBatteryPublished)
    /\ WF_vars(IngestDailyPublished)
    /\ WF_vars(IngestPublished)
    /\ WF_vars(IngestChargedPublished)
    /\ WF_vars(IngestDischargedPublished)
    /\ WF_vars(IngestCycleCountPublished)
    /\ WF_vars(IngestLoadBalancingPublished)
    /\ WF_vars(IngestCapabilitiesUpdated)
    /\ WF_vars(IngestSendDone)

----------------------------------------------------------------------------
(* SpecRestart: the device with restarts of its process. The Store, the      *)
(* capability values and the settings outlive the process; the fields of the *)
(* device, its timers and its suspended handlers do not. The metric events   *)
(* are those with the zero result, which the device reports.                 *)

\* The process of the device ends and a new one is constructed, at once or at
\* a later time: the fields have their declared values (null), no timer and
\* no handler is left.
DeviceRestart ==
    /\ phase # "created"
    /\ \E now \in {clockMs} \cup restartClocks :
        /\ now >= clockMs
        /\ clockMs' = now
    /\ slotRestored' = FALSE
    /\ phase' = "created"
    /\ onbalansmarktClient' = NoClient
    /\ profilePollerHandle' = NoTimer
    /\ measurementsSchedulerHandle' = NoTimer
    /\ countdownTimerHandle' = NoTimer
    /\ lastReceivedMetrics' = NoMetrics
    /\ timers' = {}
    /\ tasks' = <<>>
    /\ schedulerRuns' = 0
    /\ pollerRuns' = 0
    /\ capabilities' = [capabilities EXCEPT !.adding = 0]
    /\ lastCall' = NoCall
    /\ UNCHANGED <<settings, storeValue, rankings, eventVars, envVars, calcVars,
                   unitTimelessVars>>

InitRestart ==
    /\ DeviceStartWith({[resultToday |-> NoResultToday]}, {},
                       {ZonneplanMetrics(0, 100, 4, 3, 80, 12, TRUE, [ms |-> 0])}, {}, 1)
    /\ capabilities.missing = {}
    /\ settings.apiKey = "k"
    /\ settings.enabled
    /\ settings.reportZero
    /\ ~settings.autoSend

NextRestart ==
    \/ OnInit
    \/ OnSettings
    \/ OnSettingsResetDone
    \/ OnSettingsStored
    \/ DeviceRestart
    \/ OnUninit
    \/ FireFirstRun
    \/ FirstRunDone
    \/ PollDone
    \/ PollRankPublished
    \/ ReceiveMetrics
    \/ IngestSaved
    \/ IngestBatteryPublished
    \/ IngestDailyPublished
    \/ IngestPublished
    \/ IngestChargedPublished
    \/ IngestDischargedPublished
    \/ IngestCycleCountPublished
    \/ IngestLoadBalancingPublished
    \/ IngestCapabilitiesUpdated
    \/ IngestSendDone
    \/ ManualSend
    \/ ManualDone

SpecRestart == InitRestart /\ [][NextRestart]_vars

----------------------------------------------------------------------------
(* SpecPoll: the poll loop of a device with an API key whose scheduler and   *)
(* auto-send are off, the remote service answering with any of the profiles  *)
(* and the host rejecting any update of a ranking capability. The device has *)
(* its capabilities or lacks the one of the overall rank.                    *)

InitPoll ==
    /\ DeviceStart(ProfileSamples, RankingCapabilities)
    /\ capabilities.missing \in {{}, {"zonneplan_overall_rank"}}
    /\ settings.apiKey = "k"
    /\ ~settings.enabled
    /\ ~settings.autoSend
    /\ ~settings.reportZero

NextPoll ==
    \/ OnInit
    \/ OnInitCapabilityAdded
    \/ OnInitDefaultSet
    \/ FirePoll
    \/ PollDone
    \/ PollRankPublished
    \/ OnSettings
    \/ OnSettingsResetDone

SpecPoll == InitPoll /\ [][NextPoll]_vars

----------------------------------------------------------------------------
(* SpecIngest: the ingestion of metric events by a device with an API key    *)
(* whose scheduler is off, the host rejecting any capability update and any  *)
(* write to the Store. The device has its capabilities or, with auto-send    *)
(* and zero results on, lacks the one of the daily result. Every awaited     *)
(* host call and remote call ends.                                           *)

InitIngest ==
    /\ DeviceStart({[resultToday |-> NoResultToday]}, DisplayNames)
    /\ capabilities.missing \in {{}, {"zonneplan_daily_earned"}}
    /\ capabilities.missing # {} => (settings.autoSend /\ settings.reportZero)
    /\ settings.apiKey = "k"
    /\ ~settings.enabled

NextIngest ==
    \/ OnInit
    \/ OnInitCapabilityAdded
    \/ OnInitDefaultSet
    \/ PollDone
    \/ PollRankPublished
    \/ ReceiveMetrics
    \/ IngestSaved
    \/ IngestBatteryPublished
    \/ IngestDailyPublished
    \/ IngestPublished
    \/ IngestChargedPublished
    \/ IngestDischargedPublished
    \/ IngestCycleCountPublished
    \/ IngestLoadBalancingPublished
    \/ IngestCapabilitiesUpdated
    \/ IngestSendDone
    \/ OnSettings
    \/ OnSettingsResetDone
    \/ OnSettingsStored

SpecIngest ==
    /\ InitIngest
    /\ [][NextIngest]_vars
    /\ WF_vars(OnInit)
    /\ WF_vars(OnInitCapabilityAdded)
    /\ WF_vars(OnInitDefaultSet)
    /\ WF_vars(PollDone)
    /\ WF_vars(PollRankPublished)
    /\ WF_vars(IngestSaved)
    /\ WF_vars(IngestBatteryPublished)
    /\ WF_vars(IngestDailyPublished)
    /\ WF_vars(IngestPublished)
    /\ WF_vars(IngestChargedPublished)
    /\ WF_vars(IngestDischargedPublished)
    /\ WF_vars(IngestCycleCountPublished)
    /\ WF_vars(IngestLoadBalancingPublished)
    /\ WF_vars(IngestCapabilitiesUpdated)
    /\ WF_vars(IngestSendDone)
    /\ WF_vars(OnSettingsResetDone)
    /\ WF_vars(OnSettingsStored)

----------------------------------------------------------------------------
(* SpecCalc: the computation applied to every sampled clock value and        *)
(* setting, then applied again when the computed time is reached.            *)

\* The hours in which the clock is sampled: one far from any shift of the
\* clocks, the hour before they go forward, the hour before they go back and
\* the hour after (the wall-clock hour that is repeated).
CalcHours == {0, SpringForward - 3600, FallBack - 3600, FallBack}

InitCalc ==
    /\ calcNow \in {hour + m * 60 + s : hour \in CalcHours, m \in 0..59, s \in SecondsSample}
    /\ calcStart \in 0..59
    /\ calcInterval \in Intervals
    /\ calcNext = NoTime
    /\ calcPrev = NoTime
    /\ calcCount = 0
    /\ DeviceIdle
    /\ UnitIdle

\* The first call, at time calcNow.
Calculate ==
    /\ calcNext = NoTime
    /\ calcNext' = calcNow + calculateNextMeasurementTime(calcNow, calcStart, calcInterval)
    /\ UNCHANGED <<calcNow, calcStart, calcInterval, calcPrev, calcCount, devVars>>

\* The clock reaches the computed time (or a later second of the same minute)
\* and the computation is made again. A computed time that lies behind the
\* clock is never reached.
Recalculate ==
    /\ calcNext # NoTime
    /\ calcNext > calcNow
    /\ calcCount < MaxRecompute
    /\ \E s \in SecondsSample :
        /\ calcNow' = calcNext + s
        /\ calcNext' = calcNow' + calculateNextMeasurementTime(calcNow', calcStart, calcInterval)
    /\ calcPrev' = calcNext
    /\ calcCount' = calcCount + 1
    /\ UNCHANGED <<calcStart, calcInterval, devVars>>

NextCalc == Calculate \/ Recalculate

SpecCalc == InitCalc /\ [][NextCalc]_vars

----------------------------------------------------------------------------
(* SpecStore: the device with restarts of its process, at once or more than  *)
(* a day later. Metric events with zero and negative earnings, with load     *)
(* balancing off and with an Invalid Date as timestamp are written to the    *)
(* Store by their ingestion, read back by restoreLastReceivedMetrics when    *)
(* the process starts again, and transmitted by the scheduled and the        *)
(* manual send. The host rejects any write to the Store.                     *)

\* The metric events that are explored: negative earnings with a zero total,
\* an empty battery, load balancing off and a timestamp with milliseconds; a
\* zero result with a negative total at the epoch; a result whose timestamp
\* is an Invalid Date (`new Date(text)` of a text that is no date).
StoreEventSamples ==
    {ZonneplanMetrics(0 - 5, 0, 2, 0, 0, 0, FALSE, [ms |-> 90123004]),
     ZonneplanMetrics(0, 0 - 3, 0, 1, 80, 7, TRUE, [ms |-> 0]),
     ZonneplanMetrics(10, 100, 4, 3, 80, 12, TRUE, InvalidDate)}

\* The clock values at which the process is started again: a day after the
\* later sampled timestamp to the millisecond, and one millisecond later.
RestartClockSamples == {90123004 + MaxAgeMs, 90123004 + MaxAgeMs + 1}

\* A device with an API key and the scheduler on that has its capabilities
\* and reports zero results or not.
InitStore ==
    /\ DeviceStartWith({[resultToday |-> NoResultToday]}, {}, StoreEventSamples,
                       RestartClockSamples, 1)
    /\ capabilities.missing = {}
    /\ settings.apiKey = "k"
    /\ settings.enabled
    /\ ~settings.autoSend

NextStore ==
    \/ OnInit
    \/ DeviceRestart
    \/ FireFirstRun
    \/ FirstRunDone
    \/ PollDone
    \/ PollRankPublished
    \/ ReceiveMetrics
    \/ IngestSaved
    \/ IngestBatteryPublished
    \/ IngestDailyPublished
    \/ IngestPublished
    \/ IngestChargedPublished
    \/ IngestDischargedPublished
    \/ IngestCycleCountPublished
    \/ IngestLoadBalancingPublished
    \/ IngestCapabilitiesUpdated
    \/ ManualSend
    \/ ManualDone

SpecStore == InitStore /\ [][NextStore]_vars

----------------------------------------------------------------------------
(* SpecSimulation: settings changes and metric events, some with an Invalid  *)
(* Date as timestamp, of a device with an API key whose scheduler is off:    *)
(* the simulation test finds no Measurement, succeeds or throws, and the     *)
(* host accepts or rejects each reset of the checkbox.                       *)

InitSimulation ==
    /\ DeviceStartWith({[resultToday |-> NoResultToday]}, {}, StoreEventSamples, {}, 1)
    /\ capabilities.missing = {}
    /\ settings.apiKey = "k"
    /\ ~settings.enabled
    /\ settings.reportZero

NextSimulation ==
    \/ OnInit
    \/ PollDone
    \/ PollRankPublished
    \/ ReceiveMetrics
    \/ IngestSaved
    \/ IngestBatteryPublished
    \/ IngestDailyPublished
    \/ IngestPublished
    \/ IngestChargedPublished
    \/ IngestDischargedPublished
    \/ IngestCycleCountPublished
    \/ IngestLoadBalancingPublished
    \/ IngestCapabilitiesUpdated
    \/ IngestSendDone
    \/ OnSettings
    \/ OnSettingsResetDone
    \/ OnSettingsStored

SpecSimulation == InitSimulation /\ [][NextSimulation]_vars

----------------------------------------------------------------------------
(* SpecConcurrent: metric events that are received while the handler of the  *)
(* event before is suspended, and settings changes, of a device with an API  *)
(* key whose scheduler is off, with auto-send on or off. The host accepts    *)
(* every write and resumes the suspended handlers in any order.              *)

InitConcurrent ==
    /\ DeviceStartWith({[resultToday |-> NoResultToday]}, {}, MetricEventSamples, {},
                       MaxTasks)
    /\ capabilities.missing = {}
    /\ settings.apiKey = "k"
    /\ ~settings.enabled

NextConcurrent ==
    \/ OnInit
    \/ PollDone
    \/ PollRankPublished
    \/ ReceiveMetrics
    \/ IngestSaved
    \/ IngestBatteryPublished
    \/ IngestDailyPublished
    \/ IngestPublished
    \/ IngestChargedPublished
    \/ IngestDischargedPublished
    \/ IngestCycleCountPublished
    \/ IngestLoadBalancingPublished
    \/ IngestCapabilitiesUpdated
    \/ IngestSendDone
    \/ ManualSend
    \/ ManualDone
    \/ OnSettings
    \/ OnSettingsResetDone
    \/ OnSettingsStored

SpecConcurrent == InitConcurrent /\ [][NextConcurrent]_vars

----------------------------------------------------------------------------
(* SpecCountdown: updateCountdownDisplay applied to sampled clock values      *)
(* (in milliseconds) and schedule settings, again and again as the clock      *)
(* advances (by a millisecond, by ten seconds, or by a long stall).           *)

\* Clock values that are explored, in milliseconds: in an hour far from any
\* shift of the clocks and in the wall-clock hour that is repeated.
CountdownClockSamples ==
    {(m * 60 + sec) * 1000 + ms : m \in {0, 14, 15, 59}, sec \in {0, 30, 59}, ms \in {0, 1, 999}}
        \cup {(FallBack + m * 60 + sec) * 1000 + ms : m \in {0, 59}, sec \in {0, 30}, ms \in {0, 1}}

\* Values of the start-minute setting that are explored.
CountdownStartSamples == {0, 7, 15, 59}

\* Values of the send-interval setting that are explored (0 stands for unset).
CountdownIntervalSamples == {0, 1, 15, 25, 90}

\* What the step says of an updateCountdownDisplay that read the clock `now`
\* and computed `value`; after: the clock the call before it read (Null if none).
CountdownCall(now, value, outcome, before) ==
    [op |-> "countdown", now |-> now, value |-> value, outcome |-> outcome,
     after |-> IF before.op = "countdown" THEN before.now ELSE Null]

\* updateCountdownDisplay runs (at the start of the countdown timer, or at
\* one of its ticks): the value is computed from the clock and the settings
\* and published; a failing setCapabilityValue is caught and logged.
UpdateCountdownDisplay ==
    /\ \E now \in CountdownClockSamples, outcome \in Outcomes :
        LET value == CountdownValue(nextLivesend, now, calcStart, calcInterval)
        IN  /\ now >= clockMs
            /\ clockMs' = now
            /\ nextLivesend' = IF outcome = "ok" THEN value ELSE nextLivesend
            /\ lastCall' = CountdownCall(now, value, outcome, lastCall)
    /\ UNCHANGED <<calcVars, phase, settings, onbalansmarktClient, profilePollerHandle,
                   measurementsSchedulerHandle, countdownTimerHandle, lastReceivedMetrics,
                   timers, schedulerRuns, pollerRuns, tasks, storeValue, capabilities,
                   rankings, envVars, histVars, savedMetrics, clientCall, clientResult,
                   schedVars>>

InitCountdown ==
    /\ DeviceIdle
    /\ calcNow = 0
    /\ calcStart \in CountdownStartSamples
    /\ calcInterval \in CountdownIntervalSamples
    /\ calcNext = NoTime
    /\ calcPrev = NoTime
    /\ calcCount = 0
    /\ clockMs \in CountdownClockSamples
    /\ nextLivesend = 0
    /\ savedMetrics = NoMetrics
    /\ clientCall = NoCall
    /\ clientResult = NoCall
    /\ SchedIdle

NextCountdown == UpdateCountdownDisplay

SpecCountdown == InitCountdown /\ [][NextCountdown]_vars

----------------------------------------------------------------------------
(* SpecClient: OnbalansmarktClient.sendMeasurement applied to sampled         *)
(* measurements, the remote service (or the network) answering in every       *)
(* sampled way.                                                               *)

\* JavaScript values of a measurement's fields.
JsUndefined == [kind |-> "undefined"]
JsNull == [kind |-> "null"]
JsNumber(n) == [kind |-> "number", value |-> n]
JsString(text) == [kind |-> "string", value |-> text]
JsDate(ms) == [kind |-> "date", ms |-> ms]

\* Number.toString() of the numbers that are explored.
NumberText ==
    (0 :> "0") @@ (2 :> "2") @@ (80 :> "80") @@ (105 :> "105") @@ ((0 - 5) :> "-5")
    @@ (200 :> "200") @@ (400 :> "400") @@ (401 :> "401") @@ (500 :> "500")

\* value.toString() of a field's value; a Date gives toISOString().
FieldText(value) ==
    IF value.kind = "number" THEN NumberText[value.value]
    ELSE IF value.kind = "date" THEN toISOString(value)
    ELSE value.value

\* The optional fields of OnbalansmarktMeasurement, and the required ones.
OptionalFields ==
    {"batteryCharge", "batteryPower", "chargedToday", "dischargedToday",
     "loadBalancingActive", "solarResult", "chargerResult", "batteryResultEpex",
     "batteryResultImbalance", "batteryResultCustom", "batteryResultAccounting",
     "totalBatteryCycles", "mode"}

RequiredFields == {"timestamp", "batteryResult", "batteryResultTotal"}

\* The measurements sendMeasurement is called with that are explored: each
\* required field present (0 included), null or undefined, optional fields
\* with a value (0 included), null or undefined.
MeasurementSamples ==
    [timestamp : {JsDate(90123004), JsUndefined},
     batteryResult : {JsNumber(0), JsNumber(0 - 5), JsNull, JsUndefined},
     batteryResultTotal : {JsNumber(0), JsNumber(105), JsNull},
     batteryCharge : {JsNumber(0), JsNumber(80), JsNull, JsUndefined},
     batteryPower : {JsUndefined},
     chargedToday : {JsNumber(2), JsUndefined},
     dischargedToday : {JsUndefined},
     loadBalancingActive : {JsString("on"), JsString("off"), JsNull},
     solarResult : {JsNull},
     chargerResult : {JsUndefined},
     batteryResultEpex : {JsUndefined},
     batteryResultImbalance : {JsUndefined},
     batteryResultCustom : {JsUndefined},
     batteryResultAccounting : {JsUndefined},
     totalBatteryCycles : {JsUndefined},
     mode : {JsString("manual"), JsUndefined}]

\* What fetch does: it throws (the network fails), or it returns a response.
TransportFailure == [kind |-> "transport", message |-> "fetch failed"]

HttpReply(status, contentType, body) ==
    [kind |-> "http", status |-> status, contentType |-> contentType, body |-> body]

ReplySamples ==
    {TransportFailure,
     HttpReply(200, "text/plain", "OK"),
     HttpReply(400, "application/json; charset=utf-8", "{ \"error\" : \"bad\" }"),
     HttpReply(400, "application/json", "not json"),
     HttpReply(401, "text/html; charset=UTF-8", "<html>"),
     HttpReply(401, "application/json", "{ \"error\" : \"bad\" }"),
     HttpReply(500, "", "")}

\* response.ok: the status is in the range 200-299.
ResponseOk(reply) == reply.status >= 200 /\ reply.status <= 299

\* response.statusText of the statuses that are explored.
StatusText ==
    (200 :> "OK") @@ (400 :> "Bad Request") @@ (401 :> "Unauthorized")
    @@ (500 :> "Internal Server Error")

\* contentType.includes('application/json'), contentType.includes('text/html')
IsJsonContentType(contentType) ==
    contentType \in {"application/json", "application/json; charset=utf-8"}

IsHtmlContentType(contentType) == contentType \in {"text/html", "text/html; charset=UTF-8"}

\* JSON.stringify(await response.json()) of the bodies that are JSON; a body
\* that is not in the domain makes response.json() throw.
JsonStringified == ("{ \"error\" : \"bad\" }" :> "{\"error\":\"bad\"}")

\* The hint added for an HTML response.
HtmlHint == " (HTML response - API may be down or invalid API key)"

\* Mutant of ErrorDetails: the body is left out of the message.
ErrorDetailsStatusOnly(reply) ==
    <<"HTTP ", NumberText[reply.status], " ", StatusText[reply.status]>>

\* errorDetails of a response that is not ok, as the parts of the text.
ErrorDetails(reply) ==
    <<"HTTP ", NumberText[reply.status], " ", StatusText[reply.status]>>
    \o (IF IsJsonContentType(reply.contentType)
        THEN IF reply.body \in DOMAIN JsonStringified
             THEN <<": ", JsonStringified[reply.body]>>
             ELSE <<>>
        ELSE IF IsHtmlContentType(reply.contentType) THEN <<HtmlHint>> ELSE <<>>)

\* The message of the error the catch of sendMeasurement throws for `reply`.
SendErrorMessage(reply) ==
    <<"Failed to send measurement: ">>
    \o (IF reply.kind = "transport"
        THEN <<reply.message>>
        ELSE <<"API returned ">> \o ErrorDetails(reply))

\* The message of the validation error.
RequiredFieldsMessage == <<"timestamp, batteryResult and batteryResultTotal are required fields">>

\* `value !== null && value !== undefined`
Provided(value) == value # JsNull /\ value # JsUndefined

\* The validation of sendMeasurement rejects the measurement.
Rejected(measurement) ==
    \/ ~Provided(measurement.timestamp)
    \/ measurement.batteryResult = JsNull
    \/ measurement.batteryResult = JsUndefined
    \/ measurement.batteryResultTotal = JsNull
    \/ measurement.batteryResultTotal = JsUndefined

\* Mutant of PayloadFields: every optional field is put into the payload.
PayloadFieldsAll(measurement) == RequiredFields \cup OptionalFields

\* The keys of the payload: the required fields and the optional fields that
\* are provided.
PayloadFields(measurement) ==
    RequiredFields \cup {f \in OptionalFields : Provided(measurement[f])}

\* The payload sendMeasurement builds: every value as text.
Payload(measurement) ==
    [f \in PayloadFields(measurement) |->
        IF Provided(measurement[f]) THEN FieldText(measurement[f]) ELSE ""]

\* No request, no error, no response text.
NoRequest == [none |-> TRUE]
NoError == <<>>
NoText == [none |-> TRUE]

\* What sendMeasurement has done so far.
ClientResult(stage, request, error, text) ==
    [stage |-> stage, request |-> request, error |-> error, text |-> text]

clientSpecVars == <<calcVars, phase, settings, onbalansmarktClient, profilePollerHandle,
                    measurementsSchedulerHandle, countdownTimerHandle, lastReceivedMetrics,
                    timers, schedulerRuns, pollerRuns, tasks, storeValue, capabilities,
                    rankings, envVars, histVars, lastCall, clockMs, nextLivesend,
                    savedMetrics, schedVars>>

\* sendMeasurement is called: the measurement is validated, the payload built
\* and the POST request issued.
SendMeasurementCalled ==
    /\ clientResult = NoCall
    /\ clientResult' =
          IF Rejected(clientCall.measurement)
          THEN ClientResult("thrown", NoRequest, RequiredFieldsMessage, NoText)
          ELSE ClientResult("awaiting", Payload(clientCall.measurement), NoError, NoText)
    /\ UNCHANGED <<clientCall, clientSpecVars>>

\* fetch ends: a response that is ok gives its text; one that is not ok, and
\* a failure of fetch, give an error.
SendMeasurementReplied ==
    /\ clientResult # NoCall
    /\ clientResult.stage = "awaiting"
    /\ clientResult' =
          IF clientCall.reply.kind = "http" /\ ResponseOk(clientCall.reply)
          THEN [clientResult EXCEPT !.stage = "returned", !.text = clientCall.reply.body]
          ELSE [clientResult EXCEPT !.stage = "thrown",
                                    !.error = SendErrorMessage(clientCall.reply)]
    /\ UNCHANGED <<clientCall, clientSpecVars>>

InitClient ==
    /\ DeviceIdle
    /\ CalcIdle
    /\ clockMs = 0
    /\ nextLivesend = 0
    /\ savedMetrics = NoMetrics
    /\ clientCall \in [measurement : MeasurementSamples, reply : ReplySamples]
    /\ clientResult = NoCall
    /\ SchedIdle

NextClient ==
    \/ SendMeasurementCalled
    \/ SendMeasurementReplied

SpecClient == InitClient /\ [][NextClient]_vars

----------------------------------------------------------------------------
(* SpecSchedule: the scheduler of a device with an API key and sending        *)
(* enabled, with the wall clock: startMeasurementsScheduler at a sampled       *)
(* time, then the countdown ticks, the first-run timeout, the end of its       *)
(* delivery and the fires of the periodic interval, each at the time the       *)
(* host's timers give it. The settings are not changed. Times are in           *)
(* milliseconds from the top of an hour.                                       *)

\* Number of fires of the send timers that are followed.
MaxSendFires == 3

\* Clock values at which the scheduler is started.
ScheduleClockSamples == {0, 899999, 3570000}

\* Values of the start-minute setting that are explored.
ScheduleStartSamples == {0, 7}

\* Values of the send-interval setting that are explored (0 stands for unset).
ScheduleIntervalSamples == {0, 15, 25, 90}

\* How long the `await sendScheduledMeasurement()` of the first-run callback
\* takes: no time without a remote call, else the time of the request.
DeliveryDurations == {0, 2500, 61000}

\* `intervalMinutes * 60 * 1000`
IntervalMs(intervalSetting) == EffInterval(intervalSetting) * 60 * 1000

\* The period of the countdown interval, `setInterval(..., 10000)`.
CountdownPeriodMs == 10000

\* A send timer of the host with the time it fires next.
SendTimer(kind, due, period) == [kind |-> kind, due |-> due, period |-> period]

\* The times at which something is due: a timer of the host, or the end of
\* the awaited delivery.
DueTimes ==
    (IF firstRunHandle # NoTimer /\ firstRunHandle.kind # "spent"
     THEN {firstRunHandle.due} ELSE {})
        \cup (IF countdownDue # NoTime THEN {countdownDue} ELSE {})
        \cup (IF firstRunEnds # NoTime THEN {firstRunEnds} ELSE {})

\* The host runs what is due first.
DueNext(time) == time \in DueTimes /\ \A other \in DueTimes : time <= other

\* What the step says of a fire of a send timer: the n-th, at the time `at`.
FireCall(n, at) == [op |-> "fire", n |-> n, at |-> at]

timedFrame == <<calcVars, phase, settings, onbalansmarktClient, profilePollerHandle,
                measurementsSchedulerHandle, countdownTimerHandle, lastReceivedMetrics,
                timers, schedulerRuns, pollerRuns, tasks, storeValue, capabilities,
                rankings, envVars, histVars, savedMetrics, clientCall, clientResult>>

\* startMeasurementsScheduler with the clock: the time to the first send is
\* computed, the countdown timer started (it publishes at once) and the
\* first-run timeout created.
StartMeasurementsSchedulerTimed ==
    /\ firstBoundary = NoTime
    /\ LET timeToFirstSend == calculateNextMeasurementTimeMs(clockMs, calcStart, calcInterval)
           value == CountdownValue(nextLivesend, clockMs, calcStart, calcInterval)
       IN  /\ firstRunHandle' = SendTimer("timeout", clockMs + timeToFirstSend,
                                          IntervalMs(calcInterval))
           /\ firstBoundary' = clockMs + timeToFirstSend
           /\ nextLivesend' = value
           /\ countdownDue' = clockMs + CountdownPeriodMs
           /\ lastCall' = CountdownCall(clockMs, value, "ok", lastCall)
    /\ UNCHANGED <<clockMs, firstRunEnds, sendFires, timedFrame>>

\* The countdown interval fires: updateCountdownDisplay.
CountdownTick ==
    /\ countdownDue # NoTime
    /\ DueNext(countdownDue)
    /\ sendFires < MaxSendFires
    /\ LET value == CountdownValue(nextLivesend, countdownDue, calcStart, calcInterval)
       IN  /\ clockMs' = countdownDue
           /\ nextLivesend' = value
           /\ countdownDue' = countdownDue + CountdownPeriodMs
           /\ lastCall' = CountdownCall(countdownDue, value, "ok", lastCall)
    /\ UNCHANGED <<firstRunHandle, firstRunEnds, firstBoundary, sendFires, timedFrame>>

\* The first-run timeout fires: the callback awaits sendScheduledMeasurement.
FireFirstRunTimed ==
    /\ firstRunHandle # NoTimer
    /\ firstRunHandle.kind = "timeout"
    /\ DueNext(firstRunHandle.due)
    /\ \E duration \in DeliveryDurations :
        firstRunEnds' = firstRunHandle.due + duration
    /\ clockMs' = firstRunHandle.due
    /\ sendFires' = sendFires + 1
    /\ firstRunHandle' = [firstRunHandle EXCEPT !.kind = "spent"]
    /\ lastCall' = FireCall(sendFires + 1, firstRunHandle.due)
    /\ UNCHANGED <<nextLivesend, countdownDue, firstBoundary, timedFrame>>

\* The await of the first-run callback ends: `setInterval(..., intervalMs)`
\* with the period read when the scheduler was started.
FirstRunEndsTimed ==
    /\ firstRunEnds # NoTime
    /\ DueNext(firstRunEnds)
    /\ clockMs' = firstRunEnds
    /\ firstRunHandle' = SendTimer("interval", firstRunEnds + firstRunHandle.period,
                                   firstRunHandle.period)
    /\ firstRunEnds' = NoTime
    /\ lastCall' = NoCall
    /\ UNCHANGED <<nextLivesend, countdownDue, firstBoundary, sendFires, timedFrame>>

\* The periodic interval fires.
FireIntervalTimed ==
    /\ firstRunHandle # NoTimer
    /\ firstRunHandle.kind = "interval"
    /\ DueNext(firstRunHandle.due)
    /\ sendFires < MaxSendFires
    /\ clockMs' = firstRunHandle.due
    /\ sendFires' = sendFires + 1
    /\ firstRunHandle' = [firstRunHandle EXCEPT !.due = @ + firstRunHandle.period]
    /\ lastCall' = FireCall(sendFires + 1, firstRunHandle.due)
    /\ UNCHANGED <<nextLivesend, countdownDue, firstRunEnds, firstBoundary, timedFrame>>

InitSchedule ==
    /\ DeviceIdle
    /\ calcNow = 0
    /\ calcStart \in ScheduleStartSamples
    /\ calcInterval \in ScheduleIntervalSamples
    /\ calcNext = NoTime
    /\ calcPrev = NoTime
    /\ calcCount = 0
    /\ clockMs \in ScheduleClockSamples
    /\ nextLivesend = 0
    /\ savedMetrics = NoMetrics
    /\ clientCall = NoCall
    /\ clientResult = NoCall
    /\ SchedIdle

NextSchedule ==
    \/ StartMeasurementsSchedulerTimed
    \/ CountdownTick
    \/ FireFirstRunTimed
    \/ FirstRunEndsTimed
    \/ FireIntervalTimed

SpecSchedule == InitSchedule /\ [][NextSchedule]_vars

----------------------------------------------------------------------------
(* Claims about the next-send-time computation (checked under SpecCalc) *)

\* C1 (as claimed): for every clock value, start minute 0..59 and interval >= 1 the delay
\* calculateNextMeasurementTime returns is strictly positive: the computed
\* next-send time lies strictly after now.
C1_DelayPositive ==
    calcNext # NoTime => calcNext - calcNow > 0

\* C2 (as claimed): recomputing when a computed next-send time T is reached
\* (now = T or a later second of T's minute) yields exactly T + intervalMinutes.
C2_RecomputeIsOneIntervalLater ==
    (calcPrev # NoTime /\ calcInterval >= 1)
        => calcNext = calcPrev + EffInterval(calcInterval) * 60

\* C3 (as claimed): the computed next-send time has zero seconds and, in minutes from the
\* top of the hour in which it is computed, equals startMinute + k * interval
\* for some k >= 0.
C3_AlignedToStartMinute ==
    calcNext # NoTime =>
        LET fromHour == calcNext - HourStart(calcNow)
        IN  /\ getSeconds(calcNext) = 0
            /\ fromHour % 60 = 0
            /\ (fromHour \div 60) >= EffStart(calcStart)
            /\ ((fromHour \div 60) - EffStart(calcStart)) % EffInterval(calcInterval) = 0

\* C33 (as claimed): the delay calculateNextMeasurementTime returns is at
\* most intervalMinutes minutes, for every clock value, every start minute
\* 0..59 and every interval (an unset interval being 15 minutes).
C33_DelayAtMostOneInterval ==
    (calcNext # NoTime /\ calcCount = 0)
        => calcNext - calcNow <= EffInterval(calcInterval) * 60

\* C40: the computation returns for every sampled clock value, every start
\* minute 0..59 and every interval setting that is unset (0) or positive: the
\* boundary search runs at most ceil(60 / intervalMinutes) + 1 times,
\* intervalMinutes being 15 for an unset interval, and the result is a time.
C40_BoundarySearchBounded ==
    calcNext # NoTime =>
        LET intervalMinutes == IF calcInterval = 0 THEN 15 ELSE calcInterval
        IN  /\ SearchIterations(calcNow, calcStart, calcInterval)
                  <= CeilDiv(60, intervalMinutes) + 1
            /\ calcNext \in Nat

\* C40 witness: the computation has returned for an unset interval in the
\* last minute of the hour with start minute 0, the search having run over
\* the minutes 0, 15, 30 and 45.
C40_Witness ==
    /\ calcNext # NoTime
    /\ calcInterval = 0
    /\ calcStart = 0
    /\ getMinutes(calcNow) = 59
    /\ SearchIterations(calcNow, calcStart, calcInterval) = 4

----------------------------------------------------------------------------
(* Claims about the device (checked under Spec; C7 and C15 under           *)
(* SpecFirstStart)                                                         *)

\* The settings name an API key (onbalansmarkt_api_key is not empty or blank).
ApiKeyConfigured == Trim(settings.apiKey) # ""

\* The step just taken called the remote submit operation.
SubmitIssued == lastCall.op = "submit"

\* The handlers of the send loop that await a submit.
SendLoopInFlight == {i \in 1..Len(tasks) : tasks[i].kind \in {"firstRun", "tick"}}

\* The profile fetches that are awaited.
PollInFlight == {i \in 1..Len(tasks) : tasks[i].kind = "poll"}

\* C4 (as claimed): on a settings change whose changed keys include the
\* enable flag, the interval, the start minute or the API key all three timers
\* are stopped and recreated: no timer that was live before the change is live
\* after it.
C4_AllTimersRecreated ==
    [][(/\ settings' # settings
        /\ ChangedKeys(settings, settings')
             \cap {"enabled", "interval", "startMinute", "apiKey"} # {})
       => timers \cap timers' = {}]_vars

\* C6 (as claimed): a scheduled send or an auto-send ingestion whose
\* Measurement has dailyEarned = 0 makes no submit call while
\* report_zero_trading_results is false, and makes one when it is true and an
\* API key is configured.
C6_ZeroResultFiltering ==
    /\ (SubmitIssued /\ lastCall.path \in {"scheduled", "auto"})
         => ~(lastCall.measurement.dailyEarned = 0 /\ ~settings.reportZero)
    /\ (/\ lastCall = SkipCall("scheduled")
        /\ lastReceivedMetrics # NoMetrics
        /\ settings.reportZero
        /\ ApiKeyConfigured)
         => lastReceivedMetrics.dailyEarned # 0
    /\ (/\ lastCall.op = "emit"
        /\ ~lastCall.delivered
        /\ settings.autoSend
        /\ settings.reportZero
        /\ ApiKeyConfigured)
         => lastCall.measurement.dailyEarned # 0

\* C7 (as claimed): while no metric event has ever been received the manual
\* send makes no remote call (it fails with an error).
C7_ManualSendNeedsReceivedMetrics ==
    ~everReceived => ~(SubmitIssued /\ lastCall.path = "manual")

\* C8 (as claimed): a submit is issued only from ingestion while
\* auto_send_measurements is true, from a send-timer fire while
\* measurements_send_enabled is true, or from a manual send, and never while
\* no API key is configured.
C8_SentOnlyIfEnabled ==
    SubmitIssued =>
        /\ \/ lastCall.path = "auto" /\ settings.autoSend
           \/ lastCall.path = "scheduled" /\ settings.enabled
           \/ lastCall.path = "manual"
        /\ ApiKeyConfigured

\* The step taken issued a delivery or ended one.
SendStep ==
    \/ lastCall'.op = "submit"
    \/ lastCall'.op = "response" /\ lastCall'.path \in {"scheduled", "manual"}
    \/ lastCall'.op = "error" /\ lastCall'.message = "Failed to send measurement"
    \/ lastCall'.op = "emit" /\ lastCall'.delivered

\* C9 (as claimed): every transmitted batteryResultTotal equals the current
\* Measurement's totalEarned plus the offset configured at the moment of the
\* send, and sending leaves the in-memory and the persisted Measurement unchanged.
C9_OffsetOnCurrentMeasurement ==
    [][/\ lastCall'.op = "submit"
          => lastCall'.batteryResultTotal
               = lastReceivedMetrics'.totalEarned + settings'.offset
       /\ SendStep
          => lastReceivedMetrics' = lastReceivedMetrics /\ storeValue' = storeValue]_vars

\* C10 (as claimed): the send loop never has two submits in flight and the
\* poll loop never has two profile fetches in flight.
C10_NoOverlappingCalls ==
    /\ Cardinality(SendLoopInFlight) <= 1
    /\ Cardinality(PollInFlight) <= 1

----------------------------------------------------------------------------
(* Claims about the poll loop, the send paths and the Measurement slot *)

\* The poll timers that are live.
PollTimers == {t \in timers : t.kind = "poll"}

\* The send timers (first-run timeout or periodic interval) that are live.
SendTimers == {t \in timers : t.kind \in {"timeout", "interval"}}

\* The value a published ranking field has when the snapshot is republished
\* wholesale: the snapshot's value, or 0 if the snapshot lacks it.
SnapshotValue(profile, field) ==
    IF profile.resultToday = NoResultToday THEN 0
    ELSE RankOrZero(profile.resultToday[field])

\* C12 (as claimed): when fetchAndUpdateProfile has returned after a
\* successful profile fetch, the host having accepted its updates, every
\* published ranking field equals the value in the fetched snapshot, or zero
\* if the snapshot (or today's result) lacks it; none retains a value of an
\* earlier snapshot.
C12_RankingRepublishedWholesale ==
    (lastCall.op = "ranked" /\ lastCall.ended /\ lastCall.displayFailed = {})
        => /\ rankings.overallRank = SnapshotValue(lastCall.profile, "overallRank")
           /\ rankings.providerRank = SnapshotValue(lastCall.profile, "providerRank")
           /\ rankings.reportedCharged = SnapshotValue(lastCall.profile, "batteryCharged")
           /\ rankings.reportedDischarged = SnapshotValue(lastCall.profile, "batteryDischarged")

\* C13 (as claimed): while the API key setting is empty or whitespace-only no
\* poll timer is running and no profile fetch is issued; a settings change
\* that removes the API key stops the poll timer.
C13_PollOnlyWithCredential ==
    ~ApiKeyConfigured =>
        /\ PollTimers = {}
        /\ profilePollerHandle = NoTimer
        /\ lastCall.op # "fetch"

\* C14: a fire of the send timer while no Measurement exists makes no remote
\* call, starts no delivery, leaves the Measurement, the Store, the display
\* values, the settings, the client and the other timers as they are, and a
\* send timer of the same scheduler run is live afterwards.
C14_FireWithoutMeasurementIsNoOp ==
    [][((FireFirstRun \/ FireInterval) /\ lastReceivedMetrics = NoMetrics)
       => /\ lastCall' = SkipCall("scheduled")
          /\ UNCHANGED <<lastReceivedMetrics, storeValue, capabilities, settings,
                         onbalansmarktClient, tasks, profilePollerHandle,
                         countdownTimerHandle>>
          /\ timers' \ SendTimers' = timers \ SendTimers
          /\ \A t \in SendTimers :
                \E u \in SendTimers' : u.kind = "interval" /\ u.run = t.run]_vars

\* C14 witness: the send timer has fired without a Measurement; nothing was
\* sent and the periodic interval is live.
C14_Witness ==
    /\ lastCall = SkipCall("scheduled")
    /\ lastReceivedMetrics = NoMetrics
    /\ onbalansmarktClient # NoClient
    /\ measurementsSchedulerHandle.kind = "interval"
    /\ measurementsSchedulerHandle \in timers
    /\ tasks = <<>>

\* C19 (as claimed): a manual send ends with an error when no API key is
\* configured (it makes no submit then) and when the remote submit fails,
\* while a failure on the scheduled or the auto-send path is never thrown on.
C19_ManualSendPropagatesFailures ==
    /\ (SubmitIssued /\ lastCall.path = "manual") => ApiKeyConfigured
    /\ lastCall # ResponseCall("manual", "fail")
    /\ lastCall.op = "error" => lastCall.path \in {"manual", "settings"}

\* The handlers that hold a Measurement they closed over.
HeldMeasurements(q) == {q[i].metrics : i \in {j \in 1..Len(q) : q[j].kind # "poll"}}

\* C11: the poll loop and the send loop are isolated: while a send timer is
\* live its callback can run whatever profile fetches are in flight or have
\* failed, and while the poll timer is live its callback can run whatever
\* submits are in flight or have failed; the end of a profile fetch (also a
\* failing one) leaves every send timer live, and the end of a delivery (also
\* a failing one) leaves every poll timer live.
C11_LoopsIsolated ==
    [][/\ (phase = "ready" /\ SendTimers # {} /\ Len(tasks) < MaxTasks)
            => ENABLED (FireFirstRun \/ FireInterval)
       /\ (phase = "ready" /\ PollTimers # {} /\ Len(tasks) < MaxTasks)
            => ENABLED FirePoll
       /\ PollDone
            => SendTimers' = SendTimers /\ UNCHANGED measurementsSchedulerHandle
       /\ (FirstRunDone \/ TickDone \/ IngestSendDone \/ ManualDone)
            => PollTimers' = PollTimers /\ UNCHANGED profilePollerHandle]_vars

\* C11 witness: the send timer has fired and submitted while a profile fetch
\* is still in flight.
C11_Witness ==
    /\ SubmitIssued
    /\ lastCall.path = "scheduled"
    /\ PollInFlight # {}
    /\ PollTimers # {}

\* C20: the Measurement slot changes only by a metric event or by the
\* restoration in onInit; a scheduled or manual send hands over the slot's
\* Measurement as it is, and no step changes a Measurement that a suspended
\* handler holds, also when the scheduler was restarted while a delivery was
\* in flight.
C20_SlotWrittenOnlyByIngestion ==
    [][/\ lastReceivedMetrics' # lastReceivedMetrics
            => (ReceiveMetrics \/ OnInit \/ OnInitCapabilityAdded \/ OnInitDefaultSet)
       /\ (lastCall'.op = "submit" /\ lastCall'.path \in {"scheduled", "manual"})
            => /\ lastCall'.measurement = lastReceivedMetrics
               /\ tasks'[Len(tasks')].metrics = lastReceivedMetrics
       /\ HeldMeasurements(tasks') \subseteq HeldMeasurements(tasks) \cup {lastReceivedMetrics'}]_vars

\* C20 witness: a delivery of the first run has ended after the scheduler was
\* restarted by a settings change (its interval is of an earlier scheduler
\* run), and the Measurement is the one that was sent.
C20_Witness ==
    /\ lastCall.op = "response"
    /\ lastCall.path = "scheduled"
    /\ measurementsSchedulerHandle.kind = "interval"
    /\ measurementsSchedulerHandle.run < schedulerRuns
    /\ lastReceivedMetrics \in MetricEventSamples

\* The Measurements that exist as a whole: those of the metric events, and
\* the one onInit reconstructs from freshly added capabilities.
WholeMeasurements ==
    MetricEventSamples
      \cup {reconstructMetricsFromCapabilities([UnsetCapabilities({}) EXCEPT !.set = TRUE], 0)}

\* C15 (as claimed): a metric event replaces the current Measurement as a
\* whole and at once: when the ingestion handler suspends for the first time
\* the slot already holds the event's Measurement, the slot always holds
\* nothing or one whole Measurement, and every send path transmits a whole
\* Measurement (the previous or the new one), never a mixture of two.
C15_MeasurementReplacedAtomically ==
    [][/\ ReceiveMetrics
            => /\ tasks'[Len(tasks')].pc = "save"
               /\ lastReceivedMetrics' = tasks'[Len(tasks')].metrics
       /\ lastReceivedMetrics' \in WholeMeasurements \cup {NoMetrics}
       /\ lastCall'.op = "submit"
            => /\ lastCall'.measurement \in WholeMeasurements
               /\ lastCall'.path \in {"scheduled", "manual"}
                    => lastCall'.measurement \in {lastReceivedMetrics, lastReceivedMetrics'}]_vars

----------------------------------------------------------------------------
(* Claims about ingestion (checked under SpecIngest) *)

\* The ingestion handlers that have not ended.
IngestInFlight == {i \in 1..Len(tasks) : tasks[i].kind = "ingest"}

\* C16 (as claimed): a failing write of the Measurement to the Store is not
\* fatal: after the failing step the in-memory Measurement is still one a
\* metric event gave (the step changes neither it nor the Store), the
\* handler goes on to the display updates, it never ends with an error, and
\* the 'metrics updated' trigger of that Measurement is emitted, after which
\* the handler returns success.
C16_StoreFailureNotFatal ==
    /\ [][(lastCall'.op = "saved" /\ lastCall'.outcome = "fail")
            => /\ lastReceivedMetrics' = lastReceivedMetrics
               /\ lastReceivedMetrics' \in MetricEventSamples
               /\ storeValue' = storeValue
               /\ \E i \in IngestInFlight' :
                     /\ tasks'[i].pc = "measure_battery"
                     /\ tasks'[i].metrics = lastCall'.measurement]_vars
    /\ [](~(lastCall.op = "error" /\ lastCall.path = "ingest"))
    /\ \A m \in MetricEventSamples :
          (lastCall = SavedCall(m, "fail")) ~> (lastCall.op = "emit" /\ lastCall.measurement = m)

\* The value the device shows for the capability `name` (none is held for
\* zonneplan_last_update).
DisplayValue(caps, name) ==
    IF name = "measure_battery" THEN caps.batteryPercentage
    ELSE IF name = "zonneplan_daily_earned" THEN caps.dailyEarned
    ELSE IF name = "zonneplan_total_earned" THEN caps.totalEarned
    ELSE IF name = "zonneplan_daily_charged" THEN caps.dailyCharged
    ELSE IF name = "zonneplan_daily_discharged" THEN caps.dailyDischarged
    ELSE IF name = "zonneplan_cycle_count" THEN caps.cycleCount
    ELSE IF name = "zonneplan_load_balancing" THEN caps.loadBalancingActive
    ELSE 0

\* The value of the Measurement m for the capability `name`, the lifetime
\* total with the offset being `total`.
MeasurementValue(m, name, total) ==
    IF name = "zonneplan_total_earned" THEN total
    ELSE DisplayValue([batteryPercentage |-> m.batteryPercentage,
                       dailyEarned |-> m.dailyEarned, dailyCharged |-> m.dailyCharged,
                       dailyDischarged |-> m.dailyDischarged, cycleCount |-> m.cycleCount,
                       loadBalancingActive |-> m.loadBalancingActive], name)

\* The capabilities updateCapabilities updates.
DisplayUpdateNames == {UpdateList[n] : n \in 1..Len(UpdateList)}

\* The display updates of an ingestion but the last.
DisplayUpdateEnds ==
    \/ IngestBatteryPublished
    \/ IngestDailyPublished
    \/ IngestPublished
    \/ IngestChargedPublished
    \/ IngestDischargedPublished
    \/ IngestCycleCountPublished
    \/ IngestLoadBalancingPublished

\* C17: updateCapabilities tries every display value on its own: after each
\* update the capability keeps its value if the update failed and holds the
\* Measurement's value otherwise (the lifetime total with the offset),
\* whatever failed before, no other display value changes, the loop goes on
\* to the next update, and after the last one the handler goes on to the
\* auto-send decision and the trigger.
C17_DisplayValuesPublishedIndividually ==
    [][/\ DisplayUpdateEnds
            => /\ lastCall'.op = "published"
               /\ lastCall'.capability \in DisplayUpdateNames
               /\ \E i \in IngestInFlight :
                     LET name == lastCall'.capability
                     IN  /\ tasks[i].pc = name
                         /\ tasks[i].metrics = lastCall'.measurement
                         /\ tasks[i].failed \subseteq lastCall'.displayFailed
                         /\ tasks'[i].pc = NextUpdate(name)
                         /\ tasks'[i].failed = lastCall'.displayFailed
                         /\ DisplayValue(capabilities', name) =
                               IF name \in lastCall'.displayFailed
                               THEN DisplayValue(capabilities, name)
                               ELSE MeasurementValue(tasks[i].metrics, name, tasks[i].value)
                         /\ \A other \in DisplayUpdateNames \ {name} :
                               DisplayValue(capabilities', other)
                                  = DisplayValue(capabilities, other)
       /\ IngestCapabilitiesUpdated
            => /\ lastCall'.op \in {"submit", "emit"}
               /\ lastCall'.displayFailed \subseteq DisplayNames
               /\ capabilities' = capabilities
               /\ \E i \in IngestInFlight :
                     /\ tasks[i].pc = "zonneplan_last_update"
                     /\ tasks[i].metrics = lastCall'.measurement
                     /\ tasks[i].failed = lastCall'.displayFailed]_vars

\* C17 witness: publishing the daily result failed, the lifetime total was
\* published all the same, and the trigger was emitted.
C17_Witness ==
    /\ lastCall.op = "emit"
    /\ ~lastCall.delivered
    /\ lastCall.displayFailed = {"zonneplan_daily_earned"}
    /\ lastCall.measurement = ZonneplanMetrics(10, 200, 4, 3, 80, 12, TRUE, [ms |-> 0])
    /\ capabilities.dailyEarned # 10
    /\ capabilities.totalEarned = 200

----------------------------------------------------------------------------
(* Claims about the Store (checked under SpecStore) *)

\* A Date cut to the second.
ToTheSecond(date) == date.ms \div 1000

\* C21: a Measurement that an ingestion has written to the Store and that is
\* restored when the device starts again is the current Measurement, equal
\* to the written one in every field, the timestamp to the second; this holds
\* for zero and negative earnings and for load balancing off.
C21_StoreRoundTrip ==
    lastCall = RestoredCall =>
        /\ savedMetrics # NoMetrics
        /\ \A f \in DOMAIN savedMetrics \ {"timestamp"} :
              lastReceivedMetrics[f] = savedMetrics[f]
        /\ DOMAIN lastReceivedMetrics = DOMAIN savedMetrics
        /\ ToTheSecond(lastReceivedMetrics.timestamp) = ToTheSecond(savedMetrics.timestamp)

\* C21 witness: a Measurement with negative daily earnings, a zero lifetime
\* total, an empty battery, load balancing off and a timestamp with
\* milliseconds has been restored from the Store.
C21_Witness ==
    /\ lastCall = RestoredCall
    /\ lastReceivedMetrics.dailyEarned < 0
    /\ lastReceivedMetrics.totalEarned = 0
    /\ lastReceivedMetrics.batteryPercentage = 0
    /\ ~lastReceivedMetrics.loadBalancingActive
    /\ lastReceivedMetrics.timestamp = [ms |-> 90123004]

\* C37: a Measurement restored from the Store is installed as the current
\* Measurement with the timestamp it was stored with, however old it is; a
\* scheduled send and a manual send of a restored Measurement, stale or not,
\* transmit it with its own timestamp: the scheduled send is held back only
\* for a zero result that is not reported, and the manual send fails only
\* where a fresh one fails, without a client or when the request fails.
C37_StaleMeasurementStillSent ==
    /\ lastCall = RestoredCall
         => /\ lastReceivedMetrics # NoMetrics
            /\ slotRestored
            /\ lastReceivedMetrics.timestamp = DateOfISOString(storeValue.timestamp)
    /\ (lastCall.op = "submit" /\ lastCall.path \in {"scheduled", "manual"})
         => /\ lastCall.measurement = lastReceivedMetrics
            /\ lastCall.measurement.timestamp = lastReceivedMetrics.timestamp
    /\ (lastCall = SkipCall("scheduled") /\ slotRestored)
         => ZeroResultSkipped(lastReceivedMetrics, settings)
    /\ (lastCall.op = "error" /\ lastCall.path = "manual" /\ slotRestored)
         => lastCall.message \in {"API key not configured", "Failed to send measurement"}

\* C37 witness: a scheduled send transmits a restored Measurement that is
\* older than 24 hours, with the timestamp it was stored with.
C37_Witness ==
    /\ lastCall.op = "submit"
    /\ lastCall.path = "scheduled"
    /\ slotRestored
    /\ isMetricsStale(lastCall.measurement, clockMs)
    /\ lastCall.measurement.timestamp = DateOfISOString(storeValue.timestamp)
    /\ lastCall.measurement = lastReceivedMetrics

----------------------------------------------------------------------------
(* Claims about the countdown (checked under SpecCountdown) *)

\* C22: for every clock value, start minute and interval the value
\* updateCountdownDisplay publishes is max(0, ceil(d / 1 minute)), d being the
\* delay calculateNextMeasurementTime returns for the same clock and settings;
\* it depends on the clock and the settings only, not on the value published
\* before.
C22_CountdownIsNextSendDelay ==
    lastCall.op = "countdown" =>
        LET d == calculateNextMeasurementTimeMs(clockMs, calcStart, calcInterval)
            minutes == IF d % 60000 = 0 THEN d \div 60000 ELSE d \div 60000 + 1
        IN  /\ lastCall.value = (IF minutes > 0 THEN minutes ELSE 0)
            /\ lastCall.outcome = "ok" => nextLivesend = lastCall.value

\* C22 witness: after a stall of more than ten minutes the countdown is
\* computed anew less than a minute before the boundary and shows 1.
C22_Witness ==
    /\ lastCall.op = "countdown"
    /\ lastCall.outcome = "ok"
    /\ lastCall.after # Null
    /\ lastCall.now - lastCall.after > 600000
    /\ calcInterval = 90
    /\ nextLivesend = 1
    /\ clockMs % 60000 # 0

\* C23: with the configuration unchanged, two countdown computations whose
\* clock readings fall into the same second compute the same number of minutes.
C23_CountdownIdempotentWithinSecond ==
    [][(/\ lastCall.op = "countdown"
        /\ lastCall'.op = "countdown"
        /\ UNCHANGED <<calcStart, calcInterval>>
        /\ lastCall'.now \div 1000 = lastCall.now \div 1000)
       => lastCall'.value = lastCall.value]_vars

\* C23 witness: two computations have been made in the same second, the
\* first at its start and the second a millisecond later, half a minute
\* before a minute boundary.
C23_Witness ==
    /\ lastCall.op = "countdown"
    /\ lastCall.after # Null
    /\ lastCall.after % 60000 = 30000
    /\ lastCall.now = lastCall.after + 1
    /\ lastCall.value >= 1

----------------------------------------------------------------------------
(* Claims about the simulation test and about settings changes *)

\* The number of remote calls that are awaited.
CallsInFlight(q) == Cardinality({i \in 1..Len(q) : q[i].pc \in {"sending", "fetching"}})

\* C24: a settings change that sets trigger_live_send to true issues no
\* remote call and touches no timer, and whether the simulation succeeds,
\* finds no Measurement or throws, the handler ends (resolves or throws)
\* only when a `setSettings({ trigger_live_send: false })` it awaited has
\* ended, and the stored trigger_live_send is false when it ends.
C24_SimulationSendsNothingAndResets ==
    [][/\ lastCall'.op = "simulation"
            => CallsInFlight(tasks') = CallsInFlight(tasks) /\ timers' = timers
       /\ (OnSettings /\ settings' = settings)
            => /\ Len(tasks') = Len(tasks) + 1
               /\ SimulationTriggered(ChangedKeys(settings, tasks'[Len(tasks')].new),
                                      tasks'[Len(tasks')].new)
               /\ tasks'[Len(tasks')].pc
                     \in {"resetNoMetrics", "resetAfterSimulation", "resetAfterThrow"}
               /\ lastCall'.op \notin {"resolved", "error"}
       /\ (lastCall'.op \in {"resolved", "error"} /\ lastCall'.path = "settings")
            => /\ OnSettingsResetDone
               /\ ~settings'.trigger
       /\ OnSettingsResetDone
            => CallsInFlight(tasks') = CallsInFlight(tasks)]_vars

\* C24 witness: the simulation of a Measurement whose timestamp is an
\* Invalid Date has thrown, the reset in the catch was accepted, the handler
\* has thrown the error on, and trigger_live_send is false.
C24_Witness ==
    /\ lastCall = ErrorCall("settings", "Invalid time value")
    /\ lastReceivedMetrics # NoMetrics
    /\ lastReceivedMetrics.timestamp = InvalidDate
    /\ ~settings.trigger
    /\ SettingsInFlight = {}

\* C25 (as claimed): a simulation test triggered while no Measurement is
\* available is not rejected with an error for want of metrics.
C25_SimulationWithoutMetricsSucceeds ==
    lastCall # ErrorCall("settings", "No metrics available for simulation")

----------------------------------------------------------------------------
(* Claims about the client (checked under SpecClient) *)

\* The text of the message (a sequence of parts) has the part `part`.
Contains(message, part) == \E i \in 1..Len(message) : message[i] = part

\* The kind of failure a caller reads off the message of the error.
FailureRead(message) ==
    IF ~Contains(message, "API returned ") THEN "transport"
    ELSE IF Contains(message, HtmlHint) THEN "html"
    ELSE IF Contains(message, ": ") THEN "json"
    ELSE "status"

\* The kind of failure the reply is.
FailureGiven(reply) ==
    IF reply.kind = "transport" THEN "transport"
    ELSE IF IsHtmlContentType(reply.contentType) THEN "html"
    ELSE IF IsJsonContentType(reply.contentType) /\ reply.body \in DOMAIN JsonStringified
         THEN "json"
    ELSE "status"

\* sendMeasurement has ended after its request was answered or failed.
RequestEnded ==
    /\ clientResult # NoCall
    /\ clientResult.stage \in {"thrown", "returned"}
    /\ clientResult.request # NoRequest

\* C26: sendMeasurement throws for every response whose status is not 2xx;
\* the message has the status; for a JSON error body it has the decoded body,
\* for an HTML body the hint at a service that is down or an invalid API key;
\* the message tells the JSON case, the HTML case and a failure of the
\* transport apart.
C26_SubmitErrorsDistinguishable ==
    (RequestEnded /\ ~(clientCall.reply.kind = "http" /\ ResponseOk(clientCall.reply)))
        => /\ clientResult.stage = "thrown"
           /\ clientResult.error # NoError
           /\ FailureRead(clientResult.error) = FailureGiven(clientCall.reply)
           /\ clientCall.reply.kind = "http"
                => /\ Contains(clientResult.error, NumberText[clientCall.reply.status])
                   /\ FailureGiven(clientCall.reply) = "json"
                        => Contains(clientResult.error,
                                    JsonStringified[clientCall.reply.body])
                   /\ FailureGiven(clientCall.reply) = "html"
                        => Contains(clientResult.error, HtmlHint)

\* C26 witness: a 401 with a JSON body has been thrown on with the status
\* and the decoded body in the message.
C26_Witness ==
    /\ RequestEnded
    /\ clientCall.reply.status = 401
    /\ clientResult.stage = "thrown"
    /\ Contains(clientResult.error, "401")
    /\ Contains(clientResult.error, "{\"error\":\"bad\"}")

\* C27: a measurement that lacks the timestamp, batteryResult or
\* batteryResultTotal is rejected and no request is made, a value of 0 being
\* present; the payload of an accepted measurement has the three required
\* fields and exactly the optional fields whose value is neither null nor
\* undefined, each as a non-empty text.
C27_PayloadHasProvidedFieldsOnly ==
    clientResult # NoCall =>
        LET m == clientCall.measurement
            lacking == \E f \in RequiredFields : m[f] \in {JsNull, JsUndefined}
        IN  /\ lacking
                => /\ clientResult.stage = "thrown"
                   /\ clientResult.request = NoRequest
                   /\ clientResult.error = RequiredFieldsMessage
            /\ ~lacking
                => /\ clientResult.request # NoRequest
                   /\ DOMAIN clientResult.request =
                         RequiredFields
                         \cup {f \in OptionalFields : m[f] \notin {JsNull, JsUndefined}}
                   /\ clientResult.request.timestamp = toISOString(m.timestamp)
                   /\ \A f \in DOMAIN clientResult.request \ {"timestamp"} :
                         /\ clientResult.request[f] # ""
                         /\ m[f].kind = "number"
                              => clientResult.request[f] = NumberText[m[f].value]

\* C27 witness: a measurement whose three required values and whose battery
\* charge are 0, with null and undefined optional fields, has been sent with
\* the zeros as "0" and without the absent fields.
C27_Witness ==
    /\ clientResult # NoCall
    /\ clientResult.stage = "returned"
    /\ clientCall.measurement.batteryResult = JsNumber(0)
    /\ clientCall.measurement.batteryResultTotal = JsNumber(0)
    /\ clientCall.measurement.batteryCharge = JsNumber(0)
    /\ clientCall.measurement.loadBalancingActive = JsNull
    /\ clientCall.measurement.mode = JsUndefined
    /\ DOMAIN clientResult.request =
          {"timestamp", "batteryResult", "batteryResultTotal", "batteryCharge", "chargedToday"}
    /\ clientResult.request.batteryCharge = "0"

----------------------------------------------------------------------------
(* Claims about retries and about display failures of the poll *)

\* The number of requests the remote calls that are awaited have made.
RECURSIVE RequestsInFlight(_)
RequestsInFlight(q) ==
    IF q = <<>> THEN 0
    ELSE (IF Head(q).pc \in {"sending", "fetching"} THEN Head(q).requests ELSE 0)
         + RequestsInFlight(Tail(q))

\* C28: no remote call is retried inline: a fire of the send timer, the
\* auto-send of an ingestion, a manual send and a fire of the poll timer each
\* start at most one remote call, which makes one request; when the request
\* ends, failed or not, the call is over, it has made that one request and its
\* handler makes no further one; and a scheduled submit is issued by a fire of
\* the send timer only, so a failed scheduled delivery is attempted again at
\* the next tick and not before.
C28_NoInlineRetry ==
    [][/\ (FireFirstRun \/ FireInterval \/ IngestCapabilitiesUpdated \/ ManualSend \/ FirePoll)
            => /\ CallsInFlight(tasks') <= CallsInFlight(tasks) + 1
               /\ RequestsInFlight(tasks') <= RequestsInFlight(tasks) + 1
       /\ (FirstRunDone \/ TickDone \/ IngestSendDone \/ ManualDone \/ PollDone)
            => /\ lastCall'.op \notin {"submit", "fetch"}
               /\ CallsInFlight(tasks') = CallsInFlight(tasks) - 1
               /\ RequestsInFlight(tasks') = RequestsInFlight(tasks) - 1
       /\ (lastCall'.op = "submit" /\ lastCall'.path = "scheduled")
            => (FireFirstRun \/ FireInterval)
       /\ lastCall'.op = "fetch" => FirePoll]_vars

\* C28 witness: a delivery of the periodic send timer has failed after one
\* request; no call is in flight and the interval is live for the next tick.
C28_Witness ==
    /\ lastCall.op = "response"
    /\ lastCall.path = "scheduled"
    /\ lastCall.outcome = "fail"
    /\ lastCall.requests = 1
    /\ CallsInFlight(tasks) = 0
    /\ measurementsSchedulerHandle.kind = "interval"
    /\ measurementsSchedulerHandle \in timers
    /\ lastReceivedMetrics \in MetricEventSamples

\* C29 (as claimed): when fetchAndUpdateProfile has returned after a
\* successful profile fetch, every ranking value the snapshot gives and whose
\* own update did not fail is published, also when the update of another
\* ranking value failed.
C29_RankingFailuresIsolated ==
    (lastCall.op = "ranked" /\ lastCall.ended)
        => \A i \in 1..Len(RankingUpdates(lastCall.profile)) :
              LET update == RankingUpdates(lastCall.profile)[i]
              IN  update.capability \notin lastCall.displayFailed
                     => rankings[update.field] = update.value

----------------------------------------------------------------------------
(* Claims about the settings that are read at send time *)

\* The settings onSettings restarts nothing for and the send paths read when
\* they run: offset, trading mode, zero-result flag, auto-send flag.
SendTimeSettings == {"offset", "mode", "reportZero", "autoSend"}

\* C30: a settings change of only the offset, the trading mode, the
\* zero-result flag or the auto-send flag leaves the three timer handles, the
\* live timers and the run counts of scheduler and poller as they were,
\* starts no send and changes neither the Measurement nor the Store; and
\* every send that starts takes the offset, the trading mode, the zero-result
\* flag and the auto-send flag from the settings stored at that time, the
\* Measurement staying as it is.
C30_SendTimeSettingsNeedNoRestart ==
    [][/\ (/\ ChangedKeys(settings, settings') # {}
           /\ ChangedKeys(settings, settings') \subseteq SendTimeSettings)
            => /\ UNCHANGED <<profilePollerHandle, measurementsSchedulerHandle,
                              countdownTimerHandle, timers, schedulerRuns, pollerRuns,
                              tasks, lastReceivedMetrics, storeValue>>
               /\ lastCall'.op # "submit"
       /\ lastCall'.op = "submit"
            => /\ settings' = settings
               /\ lastReceivedMetrics' = lastReceivedMetrics
               /\ lastCall'.mode = settings'.mode
               /\ lastCall'.batteryResultTotal
                    = lastCall'.measurement.totalEarned + settings'.offset
               /\ lastCall'.path \in {"scheduled", "auto"}
                    => (lastCall'.measurement.dailyEarned # 0 \/ settings'.reportZero)
               /\ lastCall'.path = "auto" => settings'.autoSend]_vars

\* C30 witness: after one settings change, to the trading mode 'imbalance',
\* the send timer of the scheduler's first and only run has fired and the
\* submit carries the new mode.
C30_Witness ==
    /\ settingsChanges = 1
    /\ settings.mode = "imbalance"
    /\ schedulerRuns = 1
    /\ measurementsSchedulerHandle \in timers
    /\ lastCall.op = "submit"
    /\ lastCall.path = "scheduled"
    /\ lastCall.mode = "imbalance"
    /\ lastCall.measurement = lastReceivedMetrics

----------------------------------------------------------------------------
(* Claims about the send timers *)

\* C31 (as claimed): at every moment at most one send timer (first-run
\* timeout or periodic interval) is live and it is the one
\* measurementsSchedulerHandle refers to, whatever happens while a first-run
\* callback is suspended in its delivery.
C31_OneSendTimerHeldByHandle ==
    /\ Cardinality(SendTimers) <= 1
    /\ SendTimers \subseteq {measurementsSchedulerHandle}

----------------------------------------------------------------------------
(* Claims about the manual send and about rescheduling *)

\* C36 (as claimed): the manual send is not subject to zero-result
\* filtering: with a Measurement and an API key configured it issues a
\* remote submit, also when dailyEarned is 0 and zero results are not reported.
C36_ManualSendNotFiltered ==
    [][(ManualSend /\ lastReceivedMetrics # NoMetrics /\ ApiKeyConfigured)
          => (lastCall'.op = "submit" /\ lastCall'.path = "manual")]_vars

\* C39 (as claimed): after a settings change of the send interval or the
\* start minute the recreated send timer has the period and the start minute
\* of the new settings.
C39_RescheduledFromNewSettings ==
    [][(/\ OnSettings
        /\ ChangedKeys(settings, settings') \cap {"interval", "startMinute"} # {}
        /\ measurementsSchedulerHandle' # NoTimer)
          => /\ measurementsSchedulerHandle'.period = EffInterval(settings'.interval)
             /\ measurementsSchedulerHandle'.start = EffStart(settings'.startMinute)]_vars

----------------------------------------------------------------------------
(* Claims about concurrent ingestion (checked under SpecConcurrent) *)

\* C38 (as claimed): once every ingestion handler has finished, no write to
\* the Store having failed, the persisted Measurement and the published
\* display values are those of the current in-memory Measurement (the later
\* metric event), in whatever order the suspended handlers were resumed; the
\* lifetime total is compared while the settings are those of the start.
C38_ConcurrentIngestionEndsWithLaterEvent ==
    (/\ metricEvents > 0
     /\ IngestInFlight = {}
     /\ ~storeWriteFailed)
        => /\ lastReceivedMetrics = lastEventMetrics
           /\ storeValue = StoredObject(lastReceivedMetrics)
           /\ capabilities.dailyEarned = lastReceivedMetrics.dailyEarned
           /\ settingsChanges = 0
                 => capabilities.totalEarned
                       = lastReceivedMetrics.totalEarned + EffOffset(settings)

----------------------------------------------------------------------------
(* Claims about the device with restarts (checked under SpecRestart) *)

\* The display values are those updateCapabilities publishes for the last
\* metric event, and the Store holds that event or nothing.
LastEventPublished ==
    /\ lastEventMetrics # NoMetrics
    /\ capabilities.set
    /\ capabilities.dailyEarned = lastEventMetrics.dailyEarned
    /\ capabilities.totalEarned = lastEventMetrics.totalEarned + settings.offset
    /\ storeValue \in {NoMetrics, StoredObject(lastEventMetrics)}

\* C35 (as claimed): a scheduled or manual submit carries the lifetime total
\* as the last metric event gave it plus the offset, the offset being
\* included once, also when the Measurement was reconstructed from the
\* published display values after a restart with an empty Store.
C35_OffsetIncludedOnce ==
    (/\ lastCall.op = "submit"
     /\ lastCall.path \in {"scheduled", "manual"}
     /\ LastEventPublished)
        => lastCall.batteryResultTotal = lastEventMetrics.totalEarned + settings.offset

----------------------------------------------------------------------------
(* Claims about the scheduler with the clock (checked under SpecSchedule) *)

\* C32 (as claimed): while the scheduler is running, the countdown value
\* published at a countdown tick is the number of whole minutes, rounded
\* up, until the live send timer fires next.
C32_CountdownIsTimeToNextFire ==
    (/\ lastCall.op = "countdown"
     /\ firstRunHandle # NoTimer
     /\ firstRunHandle.kind \in {"timeout", "interval"}
     /\ firstRunHandle.due > clockMs)
        => nextLivesend = CeilDiv(firstRunHandle.due - clockMs, 60000)

\* C34 (as claimed): with unchanged configuration the n-th fire of the send
\* timers happens at B + (n-1) * intervalMinutes, B being the first send time
\* computed when the scheduler was started, however long a delivery takes.
C34_FiresOnTheGridOfTheFirstBoundary ==
    lastCall.op = "fire"
        => lastCall.at = firstBoundary + (lastCall.n - 1) * IntervalMs(calcInterval)

----------------------------------------------------------------------------
(* Claims about the send loop (checked under SpecLive) *)

\* The step just taken was a fire of the send timer: sendScheduledMeasurement
\* ran (it called the client, or returned without a call).
ScheduledAttempt == lastCall.op \in {"submit", "skip"} /\ lastCall.path = "scheduled"

\* C5: a failing scheduled delivery does not end the send loop: with the
\* scheduler enabled and the settings unchanged, whatever deliveries fail
\* (the first run's or a later tick's), the send timer goes on firing, so
\* scheduled sends are attempted infinitely often.
C5_ScheduledSendsContinue == []<>ScheduledAttempt

\* C5 witness: the delivery of the first run has just failed and the periodic
\* interval of the same scheduler run is live and referred to by the handle.
C5_Witness ==
    /\ lastCall = ResponseCall("scheduled", "fail")
    /\ measurementsSchedulerHandle.kind = "interval"
    /\ measurementsSchedulerHandle \in timers
    /\ SendLoopInFlight = {}

====
